---- MODULE Spec2Model ----
(***************************************************************************)
(* junkNAS: the controller's metadata store (controller/src/fs.rs), the    *)
(* agent's chunk I/O translator (agent/src/fuse_daemon.rs), the overlay    *)
(* chunk helpers (agent/src/mesh.rs), the placement engine                 *)
(* (agent/src/allocation.rs) and the heartbeat / mesh loops                *)
(* (agent/src/main.rs, controller/src/main.rs).                            *)
(*                                                                         *)
(* Scaling.  A path is a sequence of tokens, "/" or a name without "/".    *)
(* A byte is a number in 0..2 (0 is the zero byte).  CHUNK, 64 KiB in the  *)
(* source, is scaled to 2 bytes so that multi-chunk and intra-chunk writes *)
(* stay small.  SHA-256 is modelled as a collision-free function.          *)
(***************************************************************************)
EXTENDS Integers, Sequences, FiniteSets, TLC

VARIABLES
    fs_entries,    \* controller: ControllerState.fs_entries, path -> FsEntry
    mesh_peers,    \* controller: ControllerState.mesh_peers, MeshPeers in iteration order
    nodes,         \* controller: ControllerState.nodes, node_id -> NodeState
    wg_keys,       \* controller: ControllerState.wg_keys, key pairs in iteration order
    samba_hosts,   \* controller: ControllerState.samba_hosts, as a set of node ids
    seen,          \* history: node ids in the order of their first heartbeat
    last_beat,     \* history: node id -> the body of its most recent heartbeat
    calls,         \* the calls made of a pure function or a request sequence, with results
    http,          \* the response to the last request an HTTP client made
    cache,         \* mount process: JunkNasFs.cache, path -> FsEntry
    disk,          \* node: chunk files under base_dir, <<drive_id, index>> -> bytes
    ACTIVE_PEERS,  \* agent process: mesh::ACTIVE_PEERS, set of peer node ids
    transport,     \* agent process: TRUE once GLOBAL_TRANSPORT holds the bound socket
    AGENT_STATE,   \* mount process: AGENT_STATE.node_info, a sequence of NodeStatus
    mounted,       \* nodes whose mount process runs (its GLOBAL_FS is set)
    drained,       \* agent process: how its shutdown offload went, None while it runs
    nat_call,      \* a thread inside nat.rs: the call in flight, its socket and its clock
    wr,            \* filesystem handler task: the write in flight
    res,           \* filesystem handler task: the reply of its last operation
    mrg,           \* history: the last chunk merge of each task
    justWrote,     \* history: the write that completed in the previous step
    flat,          \* history: reference flat byte array of each file
    written,       \* history: chunks recorded by completed writes
    nreq,          \* number of client requests made
    nops           \* number of filesystem operations started

meshVars  == <<mesh_peers, nodes, wg_keys, samba_hosts, seen, last_beat>>
ctrlVars  == <<fs_entries, meshVars>>
agentVars == <<cache, disk, ACTIVE_PEERS, transport, AGENT_STATE, drained, nat_call,
              mounted, wr, res>>
vars == <<fs_entries, meshVars, calls, http, cache, disk, ACTIVE_PEERS, transport,
          AGENT_STATE, drained, nat_call, mounted, wr, res, mrg, justWrote, flat,
          written, nreq, nops>>

----------------------------------------------------------------------------
\* Bounds and scaled program constants

CHUNK == 2          \* const CHUNK: u64 = 64 * 1024, scaled
MaxReq == 2         \* client requests per behaviour of Spec
MaxOps == 2         \* reads and writes per behaviour of Spec
MaxReqFs == 4       \* client requests per behaviour of SpecFs
MaxReqFiles == 3    \* client requests per behaviour of SpecFiles
MaxOpsFiles == 2    \* reads and writes per behaviour of SpecFiles
MaxReqSeq == 1      \* client requests per behaviour of SpecSeq
MaxOpsSeq == 3      \* reads and writes per behaviour of SpecSeq
MaxSize == 3        \* largest size an update_size request carries
MaxReqMesh == 3     \* client requests per behaviour of SpecMesh
MaxReqPair == 1     \* client requests per behaviour of SpecPair
MaxOpsPair == 2     \* reads and writes per behaviour of SpecPair
MaxReqDrain == 1    \* client requests per behaviour of SpecDrain
MaxOpsDrain == 1    \* reads and writes per behaviour of SpecDrain
MaxElapsed == 3     \* clock ticks a call in nat.rs is followed for
MaxArrive == 2      \* datagrams that arrive on the socket of a call in nat.rs
MaxReqPeers == 2    \* client requests per behaviour of SpecDrainPeers
MaxReqTwo == 1      \* client requests per behaviour of SpecTwo
MaxOpsTwo == 2      \* reads and writes per behaviour of SpecTwo
MaxReqTrip == 2     \* other clients' requests per behaviour of SpecTrip
MaxCalls == 2       \* calls of allocate_chunk on one snapshot in SpecPure
MaxFree == 2        \* largest free_bytes of a drive in a cluster snapshot
STUN_TIMEOUT == 2   \* Duration::from_secs(2), in clock ticks
U64 == 16           \* 2^64, the range of offset: u64, scaled like CHUNK
MODE_FILE == 420    \* 0o644
MODE_DIR == 493     \* 0o755

Nodes == {"A", "B"}
Tasks == {"tA", "tA2", "tB"}
TaskAgent(t) == IF t \in {"tA", "tA2"} THEN "A" ELSE "B"
DRIVE == "drive-fallback"

None == [none |-> TRUE]
Some(x) == [some |-> x]

\* No call in nat.rs in flight
NatIdle ==
    [fn |-> "none", pc |-> "idle", probe |-> 0, observed |-> <<>>, timeout |-> 0,
     elapsed |-> 0, sock |-> <<>>, received |-> 0, result |-> None]
Min(a, b) == IF a < b THEN a ELSE b
Max(a, b) == IF a > b THEN a ELSE b

\* Paths of the model
P_root == <<"/">>
P_a == <<"/", "a">>
P_ab == <<"/", "a", "/", "b">>
P_alive == <<"/", ".junknas_alive">>
ReqPaths == {P_root, P_a, P_ab, P_alive}
P_a_slash == <<"/", "a", "/">>
TripPaths == {P_root, P_a, P_a_slash, P_ab}

----------------------------------------------------------------------------
\* controller/src/fs.rs: helpers

RECURSIVE trim_end_slash(_)
trim_end_slash(s) ==
    IF s # <<>> /\ s[Len(s)] = "/" THEN trim_end_slash(SubSeq(s, 1, Len(s) - 1)) ELSE s

\* rfind('/'): the largest 1-based position holding "/", 0 when there is none
rfind_slash(s) ==
    LET ps == {i \in 1..Len(s) : s[i] = "/"}
    IN IF ps = {} THEN 0 ELSE CHOOSE i \in ps : \A j \in ps : j <= i

parent_of(path) ==
    IF path = P_root THEN [ok |-> FALSE, val |-> <<>>]
    ELSE LET s == trim_end_slash(path)
             pos == rfind_slash(s)
         IN IF pos = 0 THEN [ok |-> FALSE, val |-> <<>>]
            ELSE IF pos = 1 THEN [ok |-> TRUE, val |-> P_root]
            ELSE [ok |-> TRUE, val |-> SubSeq(s, 1, pos - 1)]

name_of(path) ==
    IF path = P_root THEN [ok |-> FALSE, val |-> <<>>]
    ELSE LET s == trim_end_slash(path)
             pos == rfind_slash(s)
         IN IF pos = 0 THEN [ok |-> FALSE, val |-> <<>>]
            ELSE [ok |-> TRUE, val |-> SubSeq(s, pos + 1, Len(s))]

Contains(seq, x) == \E i \in 1..Len(seq) : seq[i] = x

RECURSIVE Retain(_, _)
\* Vec::retain(|c| c != name)
Retain(seq, name) ==
    IF seq = <<>> THEN <<>>
    ELSE IF seq[1] = name THEN Retain(Tail(seq), name)
    ELSE <<seq[1]>> \o Retain(Tail(seq), name)

FsEntry(path, node_type, mode) ==
    [path |-> path, node_type |-> node_type, size |-> 0, mode |-> mode,
     chunks |-> <<>>, children |-> <<>>]

ChunkMeta(index, node_id, drive_id, chunk_hash) ==
    [index |-> index, node_id |-> node_id, drive_id |-> drive_id,
     chunk_hash |-> chunk_hash]

Put(f, k, v) == [x \in DOMAIN f \cup {k} |-> IF x = k THEN v ELSE f[x]]
Remove(f, k) == [x \in DOMAIN f \ {k} |-> f[x]]

\* The store after create, and the status the handler returns
create(st, path, node_type, mode) ==
    IF path = P_root THEN [status |-> 400, st |-> st]
    ELSE IF ~parent_of(path).ok \/ ~name_of(path).ok THEN [status |-> 400, st |-> st]
    ELSE LET parent == parent_of(path).val
             name == name_of(path).val
         IN IF parent \notin DOMAIN st THEN [status |-> 400, st |-> st]
            ELSE LET p == st[parent]
                     p2 == IF Contains(p.children, name) THEN p
                           ELSE [p EXCEPT !.children = Append(@, name)]
                 IN [status |-> 200,
                     st |-> Put(Put(st, parent, p2), path, FsEntry(path, node_type, mode))]

update_size(st, path, new_size) ==
    IF path \notin DOMAIN st THEN [status |-> 404, st |-> st]
    ELSE IF st[path].node_type # "File" THEN [status |-> 400, st |-> st]
    ELSE [status |-> 200, st |-> [st EXCEPT ![path].size = new_size]]

\* An update that keeps the ChunkMeta the store already has for an index
update_chunks_merging(st, path, chunks) ==
    IF path \notin DOMAIN st THEN [status |-> 404, st |-> st]
    ELSE IF st[path].node_type # "File" THEN [status |-> 400, st |-> st]
    ELSE LET old == st[path].chunks
             added == SelectSeq(chunks, LAMBDA c : \A i \in 1..Len(old) : old[i].index # c.index)
         IN [status |-> 200, st |-> [st EXCEPT ![path].chunks = old \o added]]

update_chunks(st, path, chunks) ==
    IF path \notin DOMAIN st THEN [status |-> 404, st |-> st]
    ELSE IF st[path].node_type # "File" THEN [status |-> 400, st |-> st]
    ELSE [status |-> 200, st |-> [st EXCEPT ![path].chunks = chunks]]

\* A delete that does not refuse "/"
delete_any(st, path) ==
    IF path \notin DOMAIN st THEN [status |-> 404, st |-> st]
    ELSE [status |-> 204, st |-> Remove(st, path)]

\* A delete that removes the entry and leaves the parent's children alone
delete_entry_only(st, path) ==
    IF path = P_root THEN [status |-> 400, st |-> st]
    ELSE IF path \notin DOMAIN st THEN [status |-> 404, st |-> st]
    ELSE [status |-> 204, st |-> Remove(st, path)]

\* delete edits the parent's children before it finds out whether the path exists
delete(st, path) ==
    IF path = P_root THEN [status |-> 400, st |-> st]
    ELSE IF ~parent_of(path).ok \/ ~name_of(path).ok THEN [status |-> 400, st |-> st]
    ELSE LET parent == parent_of(path).val
             name == name_of(path).val
             st1 == IF parent \in DOMAIN st
                    THEN [st EXCEPT ![parent].children = Retain(@, name)]
                    ELSE st
         IN IF path \notin DOMAIN st1 THEN [status |-> 404, st |-> st1]
            ELSE [status |-> 204, st |-> Remove(st1, path)]

lookup(st, path) ==
    IF path \in DOMAIN st THEN [status |-> 200, entry |-> st[path]]
    ELSE [status |-> 404, entry |-> None]

----------------------------------------------------------------------------
\* agent/src/allocation.rs

\* Sum of free_bytes over a node's drives
RECURSIVE SumFree(_)
SumFree(drives) ==
    IF drives = <<>> THEN 0 ELSE drives[1].free_bytes + SumFree(Tail(drives))

\* First position of the largest key (a stable descending sort puts it first)
FirstBest(keys) ==
    CHOOSE i \in 1..Len(keys) :
        /\ \A j \in 1..Len(keys) : keys[j] <= keys[i]
        /\ \A j \in 1..(i - 1) : keys[j] < keys[i]

\* A placement that rotates over the nodes with the number of calls made so far
allocate_chunk_rotating(file_path, chunk_idx, cluster, content_hash) ==
    IF cluster = <<>> \/ \E i \in 1..Len(cluster) : cluster[i].drives = <<>>
    THEN [kind |-> "err", meta |-> None]
    ELSE LET made == IF calls = None THEN 0 ELSE Len(calls.outs)
             node == cluster[(made % Len(cluster)) + 1]
         IN [kind |-> "ok",
             meta |-> ChunkMeta(chunk_idx, node.node_id, node.drives[1].drive_id,
                                content_hash)]

\* mesh_score is in tenths; ranks are compared after multiplying by 100 * max_free.
\* max_free = 0 makes every free ratio 0/0 = NaN: partial_cmp(..).unwrap() panics as
\* soon as the sort compares two candidates.
allocate_chunk(file_path, chunk_idx, cluster, content_hash) ==
    IF cluster = <<>> THEN [kind |-> "err", meta |-> None]
    ELSE LET max_free == CHOOSE m \in {SumFree(cluster[i].drives) : i \in 1..Len(cluster)} :
                            \A i \in 1..Len(cluster) : SumFree(cluster[i].drives) <= m
             Rank(n) == 6 * n.mesh_score * max_free + 40 * SumFree(n.drives)
         IN IF max_free = 0 /\ Len(cluster) > 1 THEN [kind |-> "panic", meta |-> None]
            ELSE LET best_node ==
                         cluster[FirstBest([i \in 1..Len(cluster) |-> Rank(cluster[i])])]
                 IN IF best_node.drives = <<>> THEN [kind |-> "err", meta |-> None]
                    ELSE LET best_drive ==
                                 best_node.drives[FirstBest([i \in 1..Len(best_node.drives) |->
                                                               best_node.drives[i].free_bytes])]
                         IN [kind |-> "ok",
                             meta |-> ChunkMeta(chunk_idx, best_node.node_id,
                                                best_drive.drive_id, content_hash)]

----------------------------------------------------------------------------
\* agent/src/nat.rs: NAT classification

SocketAddr(ip, port) == [ip |-> ip, port |-> port]

\* A classification that looks at the ip alone
classify_nat_by_ip(o1, o2) ==
    IF o1.ip = o2.ip THEN "FullCone" ELSE "Symmetric"

classify_nat(o1, o2) ==
    IF o1 = o2 THEN "FullCone"
    ELSE IF o1.ip = o2.ip /\ o1.port # o2.port THEN "PortRestrictedCone"
    ELSE IF o1 # o2 THEN "Symmetric"
    ELSE "Unknown"

IsCone(nat_type) == nat_type \in {"RestrictedCone", "PortRestrictedCone"}

\* A selection that lets a cone on either side decide before Symmetric is looked at
select_mode_cone_first(our_nat, peer_nat) ==
    IF our_nat = "FullCone" \/ peer_nat = "FullCone" THEN "Direct"
    ELSE IF IsCone(our_nat) \/ IsCone(peer_nat) THEN "HolePunch"
    ELSE IF our_nat = "Symmetric" \/ peer_nat = "Symmetric" THEN "Relay"
    ELSE "HolePunch"

\* A selection that relays whatever it cannot punch between two cones
select_mode_relay_rest(our_nat, peer_nat) ==
    IF our_nat = "FullCone" \/ peer_nat = "FullCone" THEN "Direct"
    ELSE IF IsCone(our_nat) /\ IsCone(peer_nat) THEN "HolePunch"
    ELSE "Relay"

\* A selection in which our own class alone decides between Relay and HolePunch
select_mode_ours_only(our_nat, peer_nat) ==
    IF our_nat = "FullCone" \/ peer_nat = "FullCone" THEN "Direct"
    ELSE IF our_nat = "Symmetric" THEN "Relay"
    ELSE "HolePunch"

\* select_connectivity_mode: the first arm of the match that fits decides
select_connectivity_mode(our_nat, peer_nat) ==
    IF our_nat = "FullCone" \/ peer_nat = "FullCone" THEN "Direct"
    ELSE IF our_nat = "RestrictedCone" /\ peer_nat = "RestrictedCone" THEN "HolePunch"
    ELSE IF \/ our_nat = "RestrictedCone" /\ peer_nat = "PortRestrictedCone"
            \/ our_nat = "PortRestrictedCone" /\ peer_nat = "RestrictedCone"
            \/ our_nat = "PortRestrictedCone" /\ peer_nat = "PortRestrictedCone"
         THEN "HolePunch"
    ELSE IF our_nat = "Symmetric" \/ peer_nat = "Symmetric" THEN "Relay"
    ELSE "HolePunch"

----------------------------------------------------------------------------
\* agent/src/fuse_daemon.rs and agent/src/mesh.rs: chunk helpers

Zeros(n) == [i \in 1..n |-> 0]
Sha256(bytes) == <<7>> \o bytes

\* Position of the first ChunkMeta with this index, 0 when there is none
FindChunk(chunks, idx) ==
    LET ps == {i \in 1..Len(chunks) : chunks[i].index = idx}
    IN IF ps = {} THEN 0 ELSE CHOOSE i \in ps : \A j \in ps : i <= j

Ok(v) == [kind |-> "ok", val |-> v]
Err == [kind |-> "err", val |-> <<>>]
Panic == [kind |-> "panic", val |-> <<>>]

read_local_chunk(a, meta) ==
    IF meta.node_id # a THEN Err
    ELSE IF <<meta.drive_id, meta.index>> \in DOMAIN disk[a]
         THEN Ok(disk[a][<<meta.drive_id, meta.index>>])
         ELSE Err

\* get_entry: the cached entry, else the controller's (which is then cached)
get_entry(a, path) ==
    IF path \in DOMAIN cache[a] THEN [found |-> TRUE, entry |-> cache[a][path]]
    ELSE IF path \in DOMAIN fs_entries THEN [found |-> TRUE, entry |-> fs_entries[path]]
    ELSE [found |-> FALSE, entry |-> None]

CacheAfterGet(a, path) ==
    IF path \notin DOMAIN cache[a] /\ path \in DOMAIN fs_entries
    THEN Put(cache[a], path, fs_entries[path])
    ELSE cache[a]

\* mesh::get_active_peers() in the mount process.  "junknas-agent mount" runs run_fuse
\* and returns: the mesh thread, the only caller of run_mesh, belongs to the agent
\* process, so here the list is the empty one get_or_init creates.
get_active_peers == {}

\* JunkNasFs::fetch_remote_chunk: the peer is looked up first; past that,
\* global_transport() finds no transport in this process
fetch_remote_chunk(a, meta, path) ==
    IF meta.node_id \notin get_active_peers THEN Err ELSE Panic

\* JunkNasFs::store_remote_chunk, likewise
store_remote_chunk(a, meta, path) ==
    IF meta.node_id \notin get_active_peers THEN Err ELSE Panic

\* store_local_chunk: <base>/<drive_id>/chunk_<index> written with data
store_local_chunk(d, meta, data) == Put(d, <<meta.drive_id, meta.index>>, data)

\* data[from..to) with 0-based bounds, as a Rust slice
Slice(data, from, to) == SubSeq(data, from + 1, to)

\* merged[..size].copy_from_slice(&old_data[..size])
OverlayOld(merged, old_data) ==
    LET size == Min(Len(merged), Len(old_data))
    IN [i \in 1..Len(merged) |-> IF i <= size THEN old_data[i] ELSE merged[i]]

\* A merge that leaves the new bytes out
OverlayNothing(merged, start_off, chunk_new) == merged

\* merged[start_off..end_idx].copy_from_slice(&chunk_new[..end_idx - start_off]),
\* start_off being the offset of this chunk's portion within data
OverlayNew(merged, start_off, chunk_new) ==
    LET end_idx == Min(start_off + Len(chunk_new), Len(merged))
    IN IF start_off < end_idx
       THEN [i \in 1..Len(merged) |->
                IF i > start_off /\ i <= end_idx THEN chunk_new[i - start_off]
                ELSE merged[i]]
       ELSE merged

----------------------------------------------------------------------------
\* State after construction: ControllerState::default() holds the root directory;
\* no agent runs yet.

ROOT == [path |-> P_root, node_type |-> "Directory", size |-> 0, mode |-> MODE_DIR,
         chunks |-> <<>>, children |-> <<>>]

Idle == [pc |-> "idle"]
NoReply == [op |-> "none"]

Init ==
    /\ fs_entries = [p \in {P_root} |-> ROOT]
    /\ mesh_peers = <<>>
    /\ nodes = <<>>
    /\ wg_keys = <<>>
    /\ samba_hosts = {}
    /\ seen = <<>>
    /\ last_beat = <<>>
    /\ calls = None
    /\ http = NoReply
    /\ cache = [a \in Nodes |-> <<>>]
    /\ disk = [a \in Nodes |-> <<>>]
    /\ ACTIVE_PEERS = [a \in Nodes |-> {}]
    /\ transport = [a \in Nodes |-> FALSE]
    /\ AGENT_STATE = [a \in Nodes |-> <<>>]
    /\ mounted = {}
    /\ drained = [a \in Nodes |-> None]
    /\ nat_call = NatIdle
    /\ wr = [t \in Tasks |-> Idle]
    /\ res = [t \in Tasks |-> NoReply]
    /\ mrg = [t \in Tasks |-> None]
    /\ justWrote = None
    /\ flat = <<>>
    /\ written = {}
    /\ nreq = 0
    /\ nops = 0

----------------------------------------------------------------------------
\* History bookkeeping (not program state)

FreshFlat == [bytes |-> <<>>, writers |-> {}, ok |-> TRUE]
Taint(f, path) == IF path \in DOMAIN f THEN [f EXCEPT ![path].ok = FALSE] ELSE f

\* The reference model of a write: a flat byte array, zero-filled up to the offset
ApplyWrite(bytes, offset, data) ==
    [i \in 1..Max(Len(bytes), offset + Len(data)) |->
        IF i > offset /\ i <= offset + Len(data) THEN data[i - offset]
        ELSE IF i <= Len(bytes) THEN bytes[i] ELSE 0]

FlatAfterCreate(path, node_type, status) ==
    IF status # 200 THEN flat
    ELSE IF node_type = "File" THEN Put(flat, path, FreshFlat)
    ELSE Remove(flat, path)

----------------------------------------------------------------------------
\* Requests of an HTTP client to the controller's /api/fs endpoints

ModeOf(node_type) == IF node_type = "File" THEN MODE_FILE ELSE MODE_DIR

\* Chunk arrays a client sends: a client's hash is whatever it sends
CLIENT_HASH == <<9>>
Seed(index, node_id) == ChunkMeta(index, node_id, DRIVE, CLIENT_HASH)
SeedInputs == {<<Seed(0, "A")>>, <<Seed(0, "B")>>, <<Seed(0, "A"), Seed(1, "A")>>}
ChunkInputs == SeedInputs \cup {<<>>, <<Seed(1, "A")>>}

ClientCreate(path, node_type, budget) ==
    LET r == create(fs_entries, path, node_type, ModeOf(node_type))
    IN /\ fs_entries' = r.st
       /\ http' = [op |-> "create", path |-> path, status |-> r.status]
       /\ flat' = FlatAfterCreate(path, node_type, r.status)
       /\ justWrote' = None
       /\ nreq < budget /\ nreq' = nreq + 1
       /\ UNCHANGED <<meshVars, calls, agentVars, mrg, written, nops>>

ClientUpdateSize(path, new_size, budget) ==
    LET r == update_size(fs_entries, path, new_size)
    IN /\ fs_entries' = r.st
       /\ http' = [op |-> "update_size", path |-> path, status |-> r.status]
       /\ flat' = IF r.status = 200 THEN Taint(flat, path) ELSE flat
       /\ justWrote' = None
       /\ nreq < budget /\ nreq' = nreq + 1
       /\ UNCHANGED <<meshVars, calls, agentVars, mrg, written, nops>>

ClientUpdateChunks(path, chunks, budget) ==
    LET r == update_chunks(fs_entries, path, chunks)
    IN /\ fs_entries' = r.st
       /\ http' = [op |-> "update_chunks", path |-> path, status |-> r.status]
       /\ flat' = IF r.status = 200 /\ path \in DOMAIN flat /\ flat[path].bytes # <<>>
                  THEN Taint(flat, path) ELSE flat
       /\ justWrote' = None
       /\ nreq < budget /\ nreq' = nreq + 1
       /\ UNCHANGED <<meshVars, calls, agentVars, mrg, written, nops>>

ClientDelete(path, budget) ==
    LET r == delete(fs_entries, path)
    IN /\ fs_entries' = r.st
       /\ http' = [op |-> "delete", path |-> path, status |-> r.status]
       /\ flat' = IF r.status = 204 THEN Remove(flat, path) ELSE flat
       /\ justWrote' = None
       /\ nreq < budget /\ nreq' = nreq + 1
       /\ UNCHANGED <<meshVars, calls, agentVars, mrg, written, nops>>

ClientLookup(path, budget) ==
    LET r == lookup(fs_entries, path)
    IN /\ http' = [op |-> "lookup", path |-> path, status |-> r.status, entry |-> r.entry,
                    during |-> {[old |-> wr[t].ctl_old, new_size |-> wr[t].new_size,
                                 new_chunks |-> wr[t].new_chunks] :
                                t \in {u \in Tasks : wr[u].pc = "chunks" /\ wr[u].path = path}}]
       /\ justWrote' = None
       /\ nreq < budget /\ nreq' = nreq + 1
       /\ UNCHANGED <<ctrlVars, calls, agentVars, mrg, flat, written, nops>>

----------------------------------------------------------------------------
\* agent/src/fuse_daemon.rs: run_fuse, lookup, read

\* run_fuse: the keepalive file is created on the controller (a failure is only
\* logged), then the filesystem is mounted with an empty cache.
Mount(a) ==
    /\ a \notin mounted
    /\ mounted' = mounted \cup {a}
    /\ \E rpc_ok \in BOOLEAN :
         LET r == IF rpc_ok THEN create(fs_entries, P_alive, "File", MODE_FILE)
                  ELSE [status |-> 0, st |-> fs_entries]
         IN /\ fs_entries' = r.st
            /\ flat' = FlatAfterCreate(P_alive, "File", r.status)
    /\ justWrote' = None
    /\ UNCHANGED <<meshVars, calls, http, cache, disk, ACTIVE_PEERS, transport, AGENT_STATE, drained, nat_call,
                   wr, res, mrg, written, nreq, nops>>

\* path_from_ino: the root, or a cached entry with that inode
path_from_ino(a, path) == path = P_root \/ path \in DOMAIN cache[a]

\* lookup(parent, name): the parent is ignored, the path is "/" + name
Lookup(t, name) ==
    LET a == TaskAgent(t)
        path == <<"/", name>>
        hit == path \in DOMAIN cache[a]
    IN /\ a \in mounted /\ wr[t].pc = "idle"
       /\ \E rpc_ok \in BOOLEAN :
            IF hit \/ rpc_ok
            THEN /\ cache' = [cache EXCEPT ![a] = CacheAfterGet(a, path)]
                 /\ res' = [res EXCEPT ![t] =
                        [op |-> "lookup", path |-> path,
                         status |-> IF get_entry(a, path).found THEN "ok" ELSE "ENOENT"]]
            ELSE /\ cache' = cache
                 /\ res' = [res EXCEPT ![t] =
                        [op |-> "lookup", path |-> path, status |-> "EIO"]]
       /\ justWrote' = None
       /\ UNCHANGED <<ctrlVars, calls, http, disk, ACTIVE_PEERS, transport, AGENT_STATE, drained, nat_call, mounted,
                      wr, mrg, flat, written, nreq, nops>>

\* The replies read can give from chunk idx on, out being the bytes gathered so far
RECURSIVE ReadFrom(_, _, _, _, _, _, _)
ReadFrom(a, entry, offset, end, idx, last, out) ==
    IF idx > last THEN {[status |-> "ok", data |-> out]}
    ELSE LET pos == FindChunk(entry.chunks, idx)
         IN IF pos = 0 THEN {[status |-> "EIO", data |-> <<>>]}
            ELSE LET meta == entry.chunks[pos]
                     bufs == IF meta.node_id = a THEN {read_local_chunk(a, meta)}
                             ELSE {fetch_remote_chunk(a, meta, entry.path)}
                     chunk_start == idx * CHUNK
                     chunk_end == chunk_start + CHUNK
                     start == Max(offset, chunk_start)
                     end2 == Min(end, chunk_end)
                     start_off == start - chunk_start
                     len == end2 - start
                 IN UNION {
                      IF buf.kind = "panic" THEN {[status |-> "panic", data |-> <<>>]}
                      ELSE IF buf.kind = "err" THEN {[status |-> "EIO", data |-> <<>>]}
                      ELSE IF start_off + len > Len(buf.val)
                           THEN {[status |-> "panic", data |-> <<>>]}
                      ELSE ReadFrom(a, entry, offset, end, idx + 1, last,
                                    out \o Slice(buf.val, start_off, start_off + len))
                      : buf \in bufs}

read(a, path, offset, size) ==
    IF path \notin DOMAIN cache[a] THEN {[status |-> "ENOENT", data |-> <<>>]}
    ELSE LET entry == cache[a][path]
             end == Min(offset + size, entry.size)
         IN IF entry.node_type # "File" THEN {[status |-> "EISDIR", data |-> <<>>]}
            ELSE IF offset >= entry.size THEN {[status |-> "ok", data |-> <<>>]}
            ELSE ReadFrom(a, entry, offset, end, offset \div CHUNK,
                          (end - 1) \div CHUNK, <<>>)

Read(t, path, offset, size, budget) ==
    LET a == TaskAgent(t)
    IN /\ a \in mounted /\ wr[t].pc = "idle"
       /\ nops < budget /\ nops' = nops + 1
       /\ \E r \in read(a, path, offset, size) :
            res' = [res EXCEPT ![t] =
                      [op |-> "read", path |-> path, offset |-> offset, size |-> size,
                       status |-> r.status, data |-> r.data,
                       after |-> justWrote,
                       ref |-> IF path \in DOMAIN flat THEN flat[path] ELSE None,
                       others |-> {q \in DOMAIN flat \ {path} :
                                     flat[q].writers # {} \/ ~flat[q].ok},
                       busy |-> \E u \in Tasks : wr[u].pc # "idle",
                       csize |-> IF path \in DOMAIN cache[a] THEN cache[a][path].size
                                 ELSE 0]]
       /\ justWrote' = None
       /\ UNCHANGED <<ctrlVars, calls, http, cache, disk, ACTIVE_PEERS, transport, AGENT_STATE, drained, nat_call,
                      mounted, wr, mrg, flat, written, nreq>>

----------------------------------------------------------------------------
\* agent/src/fuse_daemon.rs: write, one step per suspension point

\* A reused ChunkMeta that moves the chunk to another drive
reuse_meta_moved(existing, idx, hash_hex) ==
    ChunkMeta(idx, existing.node_id, "drive-moved", hash_hex)

\* The ChunkMeta of a chunk that already has one: its node and drive, the new hash
reuse_meta(existing, idx, hash_hex) ==
    ChunkMeta(idx, existing.node_id, existing.drive_id, hash_hex)

\* (end_pos - 1) / CHUNK in u64 arithmetic: end_pos = 0 wraps around where overflow
\* checks are off
last_idx(offset, data) == ((offset + Len(data) - 1) % U64) \div CHUNK

\* History: the controller holds a File of mode 0o644 at path
HoldsFile(st, path) ==
    path \in DOMAIN st /\ st[path].node_type = "File" /\ st[path].mode = MODE_FILE

\* The reply of a write that ends without completing, with what it had done by then
WriteReply(t, status, cause) ==
    LET w == wr[t]
        a == TaskAgent(t)
    IN [op |-> "write", path |-> w.path, offset |-> w.offset, data |-> w.data,
        status |-> status, cause |-> cause, written |-> 0,
        sent_size |-> w.sent_size, sent_chunks |-> FALSE,
        cache_same |-> (w.path \in DOMAIN cache[a] /\ cache[a][w.path] = w.entry),
        kept |-> \A f \in w.stored : f[1] \in DOMAIN disk[a] /\ disk[a][f[1]] = f[2],
        stored |-> w.stored, absent |-> w.absent, made |-> HoldsFile(fs_entries, w.path),
        idx |-> w.idx, had_meta |-> FindChunk(w.entry.chunks, w.idx) > 0,
        beat |-> w.beat, fresh |-> w.entry.size = 0 /\ w.entry.chunks = <<>>]

WriteEnds(t, status, cause) ==
    /\ wr' = [wr EXCEPT ![t] = Idle]
    /\ res' = [res EXCEPT ![t] = WriteReply(t, status, cause)]
    /\ flat' = Taint(flat, wr[t].path)
    /\ justWrote' = None

WriteBegin(t, path, offset, data, budget, overflow_checks) ==
    LET a == TaskAgent(t)
    IN /\ a \in mounted /\ wr[t].pc = "idle"
       /\ nops < budget /\ nops' = nops + 1
       /\ IF ~path_from_ino(a, path)
          THEN /\ res' = [res EXCEPT ![t] =
                     [op |-> "write", path |-> path, offset |-> offset, data |-> data,
                      status |-> "ENOENT", cause |-> "none", written |-> 0,
                      sent_size |-> FALSE, sent_chunks |-> FALSE, cache_same |-> TRUE,
                      kept |-> TRUE, stored |-> {},
                      absent |-> path \notin DOMAIN fs_entries,
                      made |-> HoldsFile(fs_entries, path)]]
               /\ UNCHANGED wr
          ELSE IF offset + Len(data) = 0 /\ overflow_checks
          THEN \* end_pos - 1: "attempt to subtract with overflow"
               /\ res' = [res EXCEPT ![t] =
                     [op |-> "write", path |-> path, offset |-> offset, data |-> data,
                      status |-> "panic", cause |-> "overflow", written |-> 0,
                      sent_size |-> FALSE, sent_chunks |-> FALSE, cache_same |-> TRUE,
                      kept |-> TRUE, stored |-> {},
                      absent |-> path \notin DOMAIN fs_entries,
                      made |-> HoldsFile(fs_entries, path)]]
               /\ UNCHANGED wr
          ELSE \* get_entry hits the cache: path_from_ino found the entry there
               /\ wr' = [wr EXCEPT ![t] =
                     [pc |-> "chunk", path |-> path, offset |-> offset, data |-> data,
                      entry |-> get_entry(a, path).entry,
                      cluster |-> AGENT_STATE[a],
                      new_chunks |-> get_entry(a, path).entry.chunks,
                      idx |-> offset \div CHUNK, write_len |-> 0,
                      new_size |-> Max(offset + Len(data), get_entry(a, path).entry.size),
                      sent_size |-> FALSE, ctl_old |-> None, stored |-> {},
                      absent |-> path \notin DOMAIN fs_entries,
                      beat |-> Contains(seen, a), seq |-> nops, nreq0 |-> nreq,
                      \* history: what a read of each other cached file returns now
                      reads0 |-> [g \in DOMAIN cache[a] \ {path} |->
                                    read(a, g, 0, MaxSize)]]]
               /\ UNCHANGED res
       /\ cache' = IF path_from_ino(a, path)
                   THEN [cache EXCEPT ![a] = CacheAfterGet(a, path)] ELSE cache
       /\ justWrote' = None
       /\ UNCHANGED <<ctrlVars, calls, http, disk, ACTIVE_PEERS, transport, AGENT_STATE, drained, nat_call,
                      mounted, mrg, flat, written, nreq>>

\* One iteration of the chunk loop: old content, merge, hash, placement, store
WriteChunk(t) ==
    /\ wr[t].pc = "chunk"
    /\ LET a == TaskAgent(t)
           w == wr[t]
           idx == w.idx
           end_pos == w.offset + Len(w.data)
           last == last_idx(w.offset, w.data)
           chunk_start == idx * CHUNK
           chunk_end == chunk_start + CHUNK
           start == Max(w.offset, chunk_start)
           end == Min(end_pos, chunk_end)
           start_off == start - w.offset
           end_off == end - w.offset
           chunk_new == IF start_off <= end_off THEN Slice(w.data, start_off, end_off)
                        ELSE <<>>
           pos == FindChunk(w.new_chunks, idx)
           old == IF pos = 0 THEN Err
                  ELSE IF w.new_chunks[pos].node_id = a
                  THEN read_local_chunk(a, w.new_chunks[pos])
                  ELSE fetch_remote_chunk(a, w.new_chunks[pos], w.path)
           \* .unwrap_or(vec![0; CHUNK])
           old_data == IF old.kind = "ok" THEN old.val ELSE Zeros(CHUNK)
           merged0 == IF pos = 0 THEN Zeros(CHUNK) ELSE OverlayOld(Zeros(CHUNK), old_data)
           merged == OverlayNew(merged0, start_off, chunk_new)
           hash_hex == Sha256(merged)
           alloc == IF pos > 0
                    THEN [kind |-> "ok",
                          meta |-> reuse_meta(w.new_chunks[pos], idx, hash_hex)]
                    ELSE allocate_chunk(w.path, idx, w.cluster, hash_hex)
           meta == alloc.meta
           chunks2 == IF pos > 0 THEN [w.new_chunks EXCEPT ![pos] = meta]
                      ELSE Append(w.new_chunks, meta)
       IN \E io_ok \in BOOLEAN :
            IF start_off > end_off
            THEN \* &data[start_off..end_off]: "slice index starts at .. but ends at .."
                 WriteEnds(t, "panic", "slice") /\ UNCHANGED <<disk, mrg>>
            ELSE IF old.kind = "panic"
            THEN WriteEnds(t, "panic", "fetch") /\ UNCHANGED <<disk, mrg>>
            ELSE IF alloc.kind # "ok"
            THEN /\ WriteEnds(t, IF alloc.kind = "err" THEN "EIO" ELSE "panic", "place")
                 /\ UNCHANGED <<disk, mrg>>
            ELSE IF meta.node_id = a /\ ~io_ok
            THEN \* self.store_local_chunk(&meta, &merged).unwrap()
                 WriteEnds(t, "panic", "store_local") /\ UNCHANGED <<disk, mrg>>
            ELSE IF meta.node_id # a
            THEN /\ WriteEnds(t, IF store_remote_chunk(a, meta, w.path).kind = "err"
                                 THEN "EIO" ELSE "panic", "store_remote")
                 /\ UNCHANGED <<disk, mrg>>
            ELSE /\ disk' = [disk EXCEPT ![a] = store_local_chunk(@, meta, merged)]
                 /\ wr' = [wr EXCEPT ![t] =
                       [w EXCEPT !.new_chunks = chunks2,
                                 !.write_len = @ + Len(chunk_new),
                                 !.idx = idx + 1,
                                 !.pc = IF idx = last THEN "size" ELSE "chunk",
                                 !.stored = {f \in @ : f[1] # <<meta.drive_id, idx>>}
                                            \cup {<<<<meta.drive_id, idx>>, merged>>}]]
                 /\ mrg' = [mrg EXCEPT ![t] =
                       [path |-> w.path, index |-> idx,
                        had_old |-> old.kind = "ok",
                        single |-> w.offset \div CHUNK = last /\ w.data # <<>>,
                        old |-> old_data, off |-> start - chunk_start,
                        new |-> chunk_new, out |-> merged]]
                 /\ UNCHANGED <<res, flat, justWrote>>
    /\ UNCHANGED <<ctrlVars, calls, http, cache, ACTIVE_PEERS, transport, AGENT_STATE, drained, nat_call, mounted,
                   written, nreq, nops>>

\* update_file_size(path, max(end_pos, entry.size))
WriteUpdateSize(t) ==
    /\ wr[t].pc = "size"
    /\ LET w == wr[t]
           new_size == Max(w.offset + Len(w.data), w.entry.size)
       IN \E rpc_ok \in BOOLEAN :
            LET r == IF rpc_ok THEN update_size(fs_entries, w.path, new_size)
                     ELSE [status |-> 0, st |-> fs_entries]
            IN /\ fs_entries' = r.st
               /\ IF r.status = 200
                  THEN /\ wr' = [wr EXCEPT ![t].pc = "chunks", ![t].sent_size = TRUE,
                                           ![t].ctl_old = fs_entries[w.path]]
                       /\ UNCHANGED <<res, flat>>
                       /\ justWrote' = None
                  ELSE WriteEnds(t, "EIO", "rpc")
    /\ UNCHANGED <<meshVars, calls, http, cache, disk, ACTIVE_PEERS, transport, AGENT_STATE, drained, nat_call,
                   mounted, mrg, written, nreq, nops>>

\* A cache that takes the new entry whether or not the requests succeeded
cache_eager(c, path, new_entry, size_ok, chunks_ok) == Put(c, path, new_entry)

\* The cache at the end of write: the insert comes after both requests, and "?" has
\* returned EIO before it when either failed
cache_after_rpcs(c, path, new_entry, size_ok, chunks_ok) ==
    IF size_ok /\ chunks_ok THEN Put(c, path, new_entry) ELSE c

\* update_file_chunks(path, new_chunks), then the cache entry is replaced
WriteUpdateChunks(t) ==
    /\ wr[t].pc = "chunks"
    /\ LET w == wr[t]
           a == TaskAgent(t)
           new_size == Max(w.offset + Len(w.data), w.entry.size)
           new_entry == [w.entry EXCEPT !.size = new_size, !.chunks = w.new_chunks]
       IN \E rpc_ok \in BOOLEAN :
            LET r == IF rpc_ok THEN update_chunks(fs_entries, w.path, w.new_chunks)
                     ELSE [status |-> 0, st |-> fs_entries]
            IN /\ fs_entries' = r.st
               /\ cache' = [cache EXCEPT ![a] = cache_after_rpcs(@, w.path, new_entry,
                                                                 w.sent_size, r.status = 200)]
               /\ IF r.status = 200
                  THEN /\ wr' = [wr EXCEPT ![t] = Idle]
                       /\ res' = [res EXCEPT ![t] =
                             [op |-> "write", path |-> w.path, offset |-> w.offset,
                              data |-> w.data, status |-> "ok", cause |-> "none",
                              written |-> w.write_len, sent_size |-> TRUE,
                              sent_chunks |-> TRUE, cache_same |-> FALSE,
                              kept |-> TRUE, stored |-> w.stored,
                              absent |-> w.absent, made |-> HoldsFile(r.st, w.path),
                              seq |-> w.seq, nreq0 |-> w.nreq0,
                              new_size |-> new_size, new_chunks |-> w.new_chunks]]
                       /\ justWrote' = [agent |-> a, path |-> w.path,
                                        offset |-> w.offset, data |-> w.data]
                       /\ flat' = IF w.path \in DOMAIN flat
                                  THEN [flat EXCEPT ![w.path].bytes =
                                                       ApplyWrite(@, w.offset, w.data),
                                                    ![w.path].writers = @ \cup {a}]
                                  ELSE flat
                       /\ written' = written \cup
                             {[path |-> w.path, meta |-> w.new_chunks[i], agent |-> a] :
                                i \in {j \in 1..Len(w.new_chunks) :
                                         <<w.new_chunks[j].drive_id, w.new_chunks[j].index>>
                                         \in {f[1] : f \in w.stored}}}
                  ELSE /\ WriteEnds(t, "EIO", "rpc")
                       /\ UNCHANGED written
    /\ UNCHANGED <<meshVars, calls, http, disk, ACTIVE_PEERS, transport, AGENT_STATE, drained, nat_call,
                   mounted, mrg, nreq, nops>>

----------------------------------------------------------------------------
\* agent/src/main.rs and controller/src/main.rs: heartbeat and mesh refresh

\* ControllerState.eject_flags: created empty, and no handler inserts into it
eject_flags == [n \in {} |-> FALSE]

\* apply_desired: an eject clears every drive directory
apply_desired(d, eject) ==
    IF eject THEN [k \in {x \in DOMAIN d : x[1] # DRIVE} |-> d[k]] ELSE d

\* A HashMap iterates in an order its hasher and its history decide: a new key takes
\* any place among the entries, a key already there keeps its place.
PosOf(seq, node_id) ==
    IF \E i \in 1..Len(seq) : seq[i].node_id = node_id
    THEN CHOOSE i \in 1..Len(seq) : seq[i].node_id = node_id ELSE 0

HashMapInsert(seq, rec) ==
    IF PosOf(seq, rec.node_id) > 0
    THEN {[seq EXCEPT ![PosOf(seq, rec.node_id)] = rec]}
    ELSE {SubSeq(seq, 1, i) \o <<rec>> \o SubSeq(seq, i + 1, Len(seq)) : i \in 0..Len(seq)}

MeshPeer(node_id, score) == [node_id |-> node_id, score |-> score]

\* HeartbeatRequest; keys says whether mesh_public_key and mesh_private_key are sent,
\* mesh_score is in tenths
HeartbeatRequest(node_id, role, drives, mesh_endpoint, keys, mesh_score) ==
    [node_id |-> node_id, role |-> role, drives |-> drives,
     mesh_endpoint |-> mesh_endpoint, keys |-> keys, mesh_score |-> mesh_score]

NodeState(body, has_key) ==
    [node_id |-> body.node_id, role |-> body.role, drives |-> body.drives,
     mesh_endpoint |-> body.mesh_endpoint, mesh_public_key |-> has_key,
     mesh_score |-> body.mesh_score]

\* POST /api/agents/heartbeat
heartbeat(body) ==
    /\ wg_keys' \in IF body.keys THEN HashMapInsert(wg_keys, [node_id |-> body.node_id])
                    ELSE {wg_keys}
    /\ seen' = IF Contains(seen, body.node_id) THEN seen ELSE Append(seen, body.node_id)
    /\ last_beat' = Put(last_beat, body.node_id, body)
    /\ IF body.role = "samba"
       THEN /\ samba_hosts' = samba_hosts \cup {body.node_id}
            /\ UNCHANGED <<nodes, mesh_peers>>
       ELSE /\ nodes' = Put(nodes, body.node_id,
                            NodeState(body, body.keys \/ PosOf(wg_keys, body.node_id) > 0))
            /\ IF /\ body.role = "pure" /\ body.mesh_endpoint # None
                  /\ body.keys /\ body.mesh_score # None
               THEN mesh_peers' \in HashMapInsert(mesh_peers,
                                                  MeshPeer(body.node_id, body.mesh_score.some))
               ELSE UNCHANGED mesh_peers
            /\ UNCHANGED samba_hosts

\* Last position of the largest key: Iterator::max_by keeps the later of two equal
\* elements
LastBest(keys) ==
    CHOOSE i \in 1..Len(keys) :
        /\ \A j \in 1..Len(keys) : keys[j] <= keys[i]
        /\ \A j \in (i + 1)..Len(keys) : keys[j] < keys[i]

RECURSIVE DerivedPeers(_)
\* The peers mesh_info adds for key pairs whose node has an endpoint but no MeshPeer
DerivedPeers(keys) ==
    IF keys = <<>> THEN <<>>
    ELSE LET node_id == keys[1].node_id
             rest == DerivedPeers(Tail(keys))
         IN IF PosOf(mesh_peers, node_id) > 0 THEN rest
            ELSE IF node_id \in DOMAIN nodes /\ nodes[node_id].mesh_endpoint # None
                 THEN <<MeshPeer(node_id,
                                 IF nodes[node_id].mesh_score = None THEN 0
                                 ELSE nodes[node_id].mesh_score.some)>> \o rest
                 ELSE rest

\* GET /api/mesh
mesh_info ==
    LET peers == mesh_peers \o DerivedPeers(wg_keys)
    IN [peers |-> peers,
        gateway |-> IF peers = <<>> THEN None
                    ELSE peers[LastBest([i \in 1..Len(peers) |-> peers[i].score])].node_id]

\* The report of a storage agent: drives found, endpoint, keys and score all present
AgentReport(a) == HeartbeatRequest(a, "pure", <<DRIVE>>, Some("ep"), TRUE, Some(5))

\* One beat of a storage agent that reaches the controller: the controller upserts
\* the node and its mesh peer record and answers with the eject flag, which the agent
\* applies.  (A beat that does not reach the controller changes nothing.)
Heartbeat(a) ==
    /\ drained[a] = None
    /\ LET eject == IF a \in DOMAIN eject_flags THEN eject_flags[a] ELSE FALSE
       IN /\ heartbeat(AgentReport(a))
          /\ disk' = [disk EXCEPT ![a] = apply_desired(@, eject)]
    /\ justWrote' = None
    /\ UNCHANGED <<fs_entries, calls, http, cache, ACTIVE_PEERS, transport, AGENT_STATE, drained, nat_call,
                   mounted, wr, res, mrg, flat, written, nreq, nops>>

\* Any HTTP client posting a report
ClientHeartbeat(body, budget) ==
    /\ nreq < budget /\ nreq' = nreq + 1
    /\ heartbeat(body)
    /\ http' = [op |-> "heartbeat", body |-> body]
    /\ justWrote' = None
    /\ UNCHANGED <<fs_entries, calls, agentVars, mrg, flat, written, nops>>

\* Any HTTP client asking for the mesh
ClientMesh(budget) ==
    /\ nreq < budget /\ nreq' = nreq + 1
    /\ http' = [op |-> "mesh", peers |-> mesh_info.peers, gateway |-> mesh_info.gateway]
    /\ justWrote' = None
    /\ UNCHANGED <<ctrlVars, calls, agentVars, mrg, flat, written, nops>>

\* One cycle of the mesh thread whose GET /mesh succeeds: run_mesh binds the overlay
\* port before it stores the peers, and the bind fails while GLOBAL_TRANSPORT holds
\* the socket of an earlier cycle.
MeshRefresh(a) ==
    /\ drained[a] = None
    /\ IF ~transport[a]
       THEN /\ transport' = [transport EXCEPT ![a] = TRUE]
            /\ ACTIVE_PEERS' = [ACTIVE_PEERS EXCEPT ![a] =
                                   {mesh_info.peers[i].node_id : i \in 1..Len(mesh_info.peers)} \ {a}]
       ELSE UNCHANGED <<transport, ACTIVE_PEERS>>
    /\ justWrote' = None
    /\ UNCHANGED <<ctrlVars, calls, http, cache, disk, AGENT_STATE, drained, nat_call, mounted, wr,
                   res, mrg, flat, written, nreq, nops>>

----------------------------------------------------------------------------
\* agent/src/main.rs: the offload of local chunks at shutdown

\* GET /api/fs/list: the stored entries among the children of a directory
list(st, path) ==
    IF path \notin DOMAIN st \/ st[path].node_type # "Directory" THEN <<>>
    ELSE LET full(child) == IF path = P_root THEN P_root \o child
                            ELSE trim_end_slash(path) \o <<"/">> \o child
             kept == SelectSeq(st[path].children, LAMBDA c : full(c) \in DOMAIN st)
         IN [i \in 1..Len(kept) |-> st[full(kept[i])]]

RECURSIVE collect_from(_, _, _)
\* collect_local_chunks over a listing: <<path, ChunkMeta>> of every chunk on node_id
collect_from(st, entries, node_id) ==
    IF entries = <<>> THEN <<>>
    ELSE LET e == entries[1]
             here == IF e.node_type = "Directory"
                     THEN collect_from(st, list(st, e.path), node_id)
                     ELSE LET mine == SelectSeq(e.chunks, LAMBDA c : c.node_id = node_id)
                          IN [i \in 1..Len(mine) |-> <<e.path, mine[i]>>]
         IN here \o collect_from(st, Tail(entries), node_id)

collect_local_chunks(st, node_id) == collect_from(st, list(st, P_root), node_id)

\* mesh_info_to_connections: the peers other than this node (every endpoint a peer
\* reports is taken to parse as a socket address)
mesh_info_to_connections(info, node_id) ==
    SelectSeq(info.peers, LAMBDA p : p.node_id # node_id)

\* GLOBAL_FS is set by run_fuse alone, and run_fuse runs in the mount process
global_fs(process) == IF process = "mount" THEN Some("fs") ELSE None

\* internal_store_local_chunk, called with the peer's node id as drive_id: it writes
\* under this process's own base_dir, and panics where GLOBAL_FS is not set
internal_store_local_chunk(process, d, index, drive_id, data) ==
    IF global_fs(process) = None THEN Panic
    ELSE Ok(Put(d, <<drive_id, index>>, data))

\* mesh::store_remote_chunk sends nothing: it stores through the local helper
mesh_store_remote_chunk(process, d, peer, index, data) ==
    internal_store_local_chunk(process, d, index, peer.node_id, data)

RECURSIVE offload(_, _, _, _)
\* The loop of offload_local_chunks over the chunks left, on this node's disk d: the
\* STOREs attempted so far, how the loop ended and the disk it leaves
offload(d, chunks, peers, stores) ==
    IF chunks = <<>> THEN [ending |-> "done", stores |-> stores, disk |-> d]
    ELSE LET path == chunks[1][1]
             meta == chunks[1][2]
             key == <<meta.drive_id, meta.index>>
         IN IF key \notin DOMAIN d
            THEN offload(d, Tail(chunks), peers, stores)
            ELSE LET r == mesh_store_remote_chunk("agent", d, peers[1], meta.index, d[key])
                     store == [path |-> path, index |-> meta.index,
                               peer |-> peers[1].node_id, data |-> d[key],
                               status |-> r.kind]
                 IN IF r.kind = "panic"
                    THEN [ending |-> "panic", stores |-> Append(stores, store), disk |-> d]
                    ELSE offload(r.val, Tail(chunks), peers, Append(stores, store))

\* The agent's shutdown: the heartbeat loop ends and offload_local_chunks runs
Drain(a) ==
    /\ drained[a] = None
    /\ LET local_chunks == collect_local_chunks(fs_entries, a)
           peers == mesh_info_to_connections(mesh_info, a)
           r == IF local_chunks = <<>>
                THEN [ending |-> "no_chunks", stores |-> <<>>, disk |-> disk[a]]
                ELSE IF peers = <<>>
                THEN [ending |-> "no_peers", stores |-> <<>>, disk |-> disk[a]]
                ELSE IF ~transport[a]
                THEN [ending |-> "panic", stores |-> <<>>, disk |-> disk[a]]
                ELSE offload(disk[a], local_chunks, peers, <<>>)
       IN /\ drained' = [drained EXCEPT ![a] = [ending |-> r.ending, stores |-> r.stores,
                                                peers |-> peers]]
          /\ disk' = [disk EXCEPT ![a] = r.disk]
    /\ justWrote' = None
    /\ UNCHANGED <<ctrlVars, calls, http, cache, ACTIVE_PEERS, transport, AGENT_STATE, nat_call,
                   mounted, wr, res, mrg, flat, written, nreq, nops>>

----------------------------------------------------------------------------
\* A client's round trip: create, lookup, delete, lookup of one path, with no request
\* of another client between them (the handlers run one at a time under the state's
\* mutex).  One round trip per behaviour.
RoundTrip(path, node_type) ==
    LET r1 == create(fs_entries, path, node_type, ModeOf(node_type))
        r2 == lookup(r1.st, path)
        r3 == delete(r1.st, path)
        r4 == lookup(r3.st, path)
        f1 == FlatAfterCreate(path, node_type, r1.status)
    IN /\ calls = None
       /\ fs_entries' = r3.st
       /\ calls' = [fn |-> "round_trip", args |-> <<path, node_type>>,
                    parent_exists |-> parent_of(path).ok
                                      /\ parent_of(path).val \in DOMAIN fs_entries,
                    outs |-> <<r1.status, r2, r3.status, r4>>,
                    listed |-> /\ parent_of(path).ok /\ name_of(path).ok
                               /\ parent_of(path).val \in DOMAIN r3.st
                               /\ Contains(r3.st[parent_of(path).val].children,
                                           name_of(path).val)]
       /\ http' = [op |-> "lookup", path |-> path, status |-> r4.status,
                   entry |-> r4.entry, during |-> {}]
       /\ flat' = IF r3.status = 204 THEN Remove(f1, path) ELSE f1
       /\ justWrote' = None
       /\ UNCHANGED <<meshVars, agentVars, mrg, written, nreq, nops>>

----------------------------------------------------------------------------
\* agent/src/nat.rs: STUN discovery and hole punching, on a blocking UDP socket

natFrame == <<ctrlVars, calls, http, cache, disk, ACTIVE_PEERS, transport, AGENT_STATE,
              drained, mounted, wr, res, mrg, justWrote, flat, written, nreq, nops>>

\* A call that has returned
NatDone(result) == [nat_call EXCEPT !.pc = "done", !.result = result]

\* A call that has bound its socket and starts its clock
NatStart(fn, pc, timeout) ==
    [fn |-> fn, pc |-> pc, probe |-> 1, observed |-> <<>>, timeout |-> timeout,
     elapsed |-> 0, sock |-> <<>>, received |-> 0, result |-> None]

ErrMsg(msg) == [kind |-> "err", val |-> msg]

\* discover_public_endpoint up to its first stun_request: the server string is parsed
\* as a socket address and the port is bound; the request is sent and start is taken
DiscoverCall(parses, bind_ok) ==
    /\ nat_call.fn = "none"
    /\ nat_call' = IF ~parses
              THEN [NatIdle EXCEPT !.fn = "discover_public_endpoint", !.pc = "done",
                                   !.result = ErrMsg("AddrParseError")]
              ELSE IF ~bind_ok
              THEN [NatIdle EXCEPT !.fn = "discover_public_endpoint", !.pc = "done",
                                   !.result = ErrMsg("bind")]
              ELSE NatStart("discover_public_endpoint", "top", STUN_TIMEOUT)
    /\ UNCHANGED natFrame

\* stun_request, top of its loop: the only place the two seconds are looked at
StunTop ==
    /\ nat_call.fn = "discover_public_endpoint" /\ nat_call.pc = "top"
    /\ nat_call' = IF nat_call.elapsed > nat_call.timeout THEN NatDone(ErrMsg("STUN timeout"))
              ELSE [nat_call EXCEPT !.pc = "recv"]
    /\ UNCHANGED natFrame

\* stun_request, sock.recv_from: the socket is blocking and has no read timeout, so
\* the call returns when a datagram is there; the datagram is then scanned for
\* XOR-MAPPED-ADDRESS
StunRecv ==
    /\ nat_call.fn = "discover_public_endpoint" /\ nat_call.pc = "recv"
    /\ nat_call.sock # <<>>
    /\ LET d == Head(nat_call.sock)
           got == [nat_call EXCEPT !.sock = Tail(@)]
       IN nat_call' = IF d.kind = "mapped6"
                 THEN [got EXCEPT !.pc = "done",
                                  !.result = ErrMsg("STUN: only IPv4 supported")]
                 ELSE IF d.kind # "mapped" THEN [got EXCEPT !.pc = "top"]
                 ELSE IF nat_call.probe = 1
                 THEN [got EXCEPT !.pc = "sleep", !.observed = <<d.addr.some>>]
                 ELSE [got EXCEPT !.pc = "done",
                                  !.observed = Append(@, d.addr.some),
                                  !.result =
                                     Ok([public_addr |-> nat_call.observed[1],
                                         nat_type |-> classify_nat(nat_call.observed[1],
                                                                   d.addr.some)])]
    /\ UNCHANGED natFrame

\* The 200 ms between the two requests; the second request takes its own start
DiscoverSleep ==
    /\ nat_call.fn = "discover_public_endpoint" /\ nat_call.pc = "sleep"
    /\ nat_call' = [nat_call EXCEPT !.pc = "top", !.probe = 2, !.elapsed = 0]
    /\ UNCHANGED natFrame

\* attempt_hole_punch up to its loop: a failed bind returns false
PunchCall(timeout, bind_ok) ==
    /\ nat_call.fn = "none"
    /\ nat_call' = IF ~bind_ok
              THEN [NatIdle EXCEPT !.fn = "attempt_hole_punch", !.pc = "done",
                                   !.result = Some(FALSE)]
              ELSE NatStart("attempt_hole_punch", "send", timeout)
    /\ UNCHANGED natFrame

\* sock.send_to(punch_packet, peer_addr), its result dropped
PunchSend ==
    /\ nat_call.fn = "attempt_hole_punch" /\ nat_call.pc = "send"
    /\ nat_call' = [nat_call EXCEPT !.pc = "recv"]
    /\ UNCHANGED natFrame

\* sock.recv_from on the blocking socket, then the match on sender and payload
PunchRecv ==
    /\ nat_call.fn = "attempt_hole_punch" /\ nat_call.pc = "recv"
    /\ nat_call.sock # <<>>
    /\ LET d == Head(nat_call.sock)
           got == [nat_call EXCEPT !.sock = Tail(@)]
       IN nat_call' = IF d.from = "peer" /\ d.kind = "punch"
                 THEN [got EXCEPT !.pc = "done", !.result = Some(TRUE)]
                 ELSE [got EXCEPT !.pc = "check"]
    /\ UNCHANGED natFrame

\* start.elapsed() > timeout, looked at after recv_from has returned
PunchCheck ==
    /\ nat_call.fn = "attempt_hole_punch" /\ nat_call.pc = "check"
    /\ nat_call' = IF nat_call.elapsed > nat_call.timeout THEN NatDone(Some(FALSE))
              ELSE [nat_call EXCEPT !.pc = "sleep"]
    /\ UNCHANGED natFrame

\* The 50 ms before the next round
PunchSleep ==
    /\ nat_call.fn = "attempt_hole_punch" /\ nat_call.pc = "sleep"
    /\ nat_call' = [nat_call EXCEPT !.pc = "send"]
    /\ UNCHANGED natFrame

\* The network delivers a datagram to the socket of the call
Arrive(d) ==
    /\ nat_call.fn # "none" /\ nat_call.pc # "done"
    /\ nat_call.received < MaxArrive
    /\ nat_call' = [nat_call EXCEPT !.sock = Append(@, d), !.received = @ + 1]
    /\ UNCHANGED natFrame

\* Time passes while the call runs.  The clock is followed up to MaxElapsed, which is
\* past every timeout of the inputs: no later reading of it compares differently, and
\* a thread inside recv_from stays there, whatever the clock, until a datagram arrives
Tick ==
    /\ nat_call.fn # "none" /\ nat_call.pc # "done"
    /\ nat_call.elapsed < MaxElapsed
    /\ nat_call' = [nat_call EXCEPT !.elapsed = @ + 1]
    /\ UNCHANGED natFrame

\* The steps the calling thread takes
NatStep ==
    \/ StunTop \/ StunRecv \/ DiscoverSleep
    \/ PunchSend \/ PunchRecv \/ PunchCheck \/ PunchSleep

----------------------------------------------------------------------------
\* Calls of the pure functions

\* A first call of allocate_chunk on a cluster snapshot
AllocateCall(file_path, chunk_idx, cluster, content_hash) ==
    /\ calls = None
    /\ calls' = [fn |-> "allocate_chunk",
                 args |-> <<file_path, chunk_idx, cluster, content_hash>>,
                 outs |-> <<allocate_chunk(file_path, chunk_idx, cluster, content_hash)>>]
    /\ UNCHANGED <<ctrlVars, http, agentVars, mrg, justWrote, flat, written, nreq, nops>>

\* Another call with the same snapshot and the same arguments
AllocateAgain ==
    /\ calls # None /\ calls.fn = "allocate_chunk" /\ Len(calls.outs) < MaxCalls
    /\ calls' = [calls EXCEPT !.outs =
                    Append(@, allocate_chunk(calls.args[1], calls.args[2],
                                             calls.args[3], calls.args[4]))]
    /\ UNCHANGED <<ctrlVars, http, agentVars, mrg, justWrote, flat, written, nreq, nops>>

\* discover_public_endpoint classifies the two endpoints its STUN requests observed
ClassifyCall(o1, o2) ==
    /\ calls = None
    /\ calls' = [fn |-> "classify_nat", args |-> <<o1, o2>>,
                 outs |-> <<classify_nat(o1, o2)>>]
    /\ UNCHANGED <<ctrlVars, http, agentVars, mrg, justWrote, flat, written, nreq, nops>>

\* A peer's mode is chosen from our NAT class and the peer's
SelectCall(our_nat, peer_nat) ==
    /\ calls = None
    /\ calls' = [fn |-> "select_connectivity_mode", args |-> <<our_nat, peer_nat>>,
                 outs |-> <<select_connectivity_mode(our_nat, peer_nat)>>]
    /\ UNCHANGED <<ctrlVars, http, agentVars, mrg, justWrote, flat, written, nreq, nops>>

\* The peer chooses its mode from the same two classes, its own first
SelectPeer ==
    /\ calls # None /\ calls.fn = "select_connectivity_mode" /\ Len(calls.outs) = 1
    /\ calls' = [calls EXCEPT !.outs =
                    Append(@, select_connectivity_mode(calls.args[2], calls.args[1]))]
    /\ UNCHANGED <<ctrlVars, http, agentVars, mrg, justWrote, flat, written, nreq, nops>>

----------------------------------------------------------------------------
\* Inputs

NodeTypes == {"File", "Directory"}
ALIVE == ".junknas_alive"
WriteInputs == {<<0, <<1, 1>>>>, <<0, <<2>>>>, <<1, <<2>>>>, <<1, <<2, 2>>>>, <<2, <<1>>>>}
SeqWriteInputs == {<<0, <<>>>>, <<0, <<1, 1>>>>, <<0, <<2>>>>, <<2, <<1>>>>}
ReadInputs == {<<0, 1>>, <<0, 2>>, <<0, 4>>}

\* Requests of HTTP clients: creates and deletes of the paths cps, the other requests
\* on the paths ps, with sizes from ss and chunk arrays from cs, at most b requests
NextClient(cps, ps, ss, cs, b) ==
    \/ \E path \in cps, node_type \in NodeTypes : ClientCreate(path, node_type, b)
    \/ \E path \in ps, new_size \in ss : ClientUpdateSize(path, new_size, b)
    \/ \E path \in ps, chunks \in cs : ClientUpdateChunks(path, chunks, b)
    \/ \E path \in cps : ClientDelete(path, b)
    \/ \E path \in ps : ClientLookup(path, b)

\* The filesystem handlers ts on files named ns with at most b reads and writes, the
\* writes drawn from ws, and the heartbeats of the nodes hs
NextAgent(ts, ns, hs, ws, b) ==
    \/ \E t \in ts : Mount(TaskAgent(t))
    \/ \E a \in hs : Heartbeat(a)
    \/ \E t \in ts : MeshRefresh(TaskAgent(t))
    \/ \E t \in ts, name \in ns : Lookup(t, name)
    \/ \E t \in ts, name \in ns, i \in ReadInputs : Read(t, <<"/", name>>, i[1], i[2], b)
    \/ \E t \in ts, name \in ns, i \in ws, overflow_checks \in BOOLEAN :
          WriteBegin(t, <<"/", name>>, i[1], i[2], b, overflow_checks)
    \/ \E t \in ts : WriteChunk(t)
    \/ \E t \in ts : WriteUpdateSize(t)
    \/ \E t \in ts : WriteUpdateChunks(t)

\* Cluster snapshots: up to two nodes, each with up to two drives
DriveStatus(drive_id, free_bytes) == [drive_id |-> drive_id, free_bytes |-> free_bytes]
NodeStatus(node_id, mesh_score, drives) ==
    [node_id |-> node_id, mesh_score |-> mesh_score, drives |-> drives]
DriveLists ==
    {<<>>} \cup {<<DriveStatus("d0", f)>> : f \in 0..MaxFree}
           \cup {<<DriveStatus("d0", f), DriveStatus("d1", g)>> : f, g \in 0..MaxFree}
NodeInputs(n) == {NodeStatus(n, sc, ds) : sc \in {0, 5, 10}, ds \in DriveLists}
Clusters ==
    {<<>>} \cup {<<a>> : a \in NodeInputs("A")}
           \cup {<<a, b>> : a \in NodeInputs("A"), b \in NodeInputs("B")}
           \cup {<<b, a>> : a \in NodeInputs("A"), b \in NodeInputs("B")}

NatTypes == {"FullCone", "RestrictedCone", "PortRestrictedCone", "Symmetric", "Unknown"}

Endpoints == {SocketAddr(ip, port) : ip \in {"ip1", "ip2"}, port \in {"p1", "p2"}}

Reports ==
    {HeartbeatRequest(n, role, IF role = "pure" THEN <<DRIVE>> ELSE <<>>, ep, keys, sc) :
        n \in Nodes, role \in {"pure", "samba"}, ep \in {None, Some("ep")},
        keys \in BOOLEAN, sc \in {None, Some(3), Some(5)}}

NextPure ==
    \/ \E cluster \in Clusters, chunk_idx \in {0, 1} :
          AllocateCall(P_alive, chunk_idx, cluster, CLIENT_HASH)
    \/ AllocateAgain
    \/ \E o1, o2 \in Endpoints : ClassifyCall(o1, o2)
    \/ \E our_nat, peer_nat \in NatTypes : SelectCall(our_nat, peer_nat)
    \/ SelectPeer

\* Datagrams: who sent it, what it holds, and the address a STUN response maps
Datagram(from, kind, addr) == [from |-> from, kind |-> kind, addr |-> addr]
Datagrams ==
    {Datagram(from, kind, None) : from \in {"peer", "other"},
                                  kind \in {"punch", "short", "plain", "mapped6"}}
      \cup {Datagram("other", "mapped", Some(SocketAddr("ip1", port))) : port \in {"p1", "p2"}}
PunchTimeouts == {1, 2}

\* One call of discover_public_endpoint or attempt_hole_punch, the network and the clock
NextNat ==
    \/ \E parses, bind_ok \in BOOLEAN : DiscoverCall(parses, bind_ok)
    \/ \E timeout \in PunchTimeouts, bind_ok \in BOOLEAN : PunchCall(timeout, bind_ok)
    \/ NatStep
    \/ \E d \in Datagrams : Arrive(d)
    \/ Tick

NextMesh ==
    \/ \E body \in Reports : ClientHeartbeat(body, MaxReqMesh)
    \/ ClientMesh(MaxReqMesh)

\* Two handler tasks of node A's mount, each writing one chunk
PairWriteInputs == {<<0, <<2>>>>, <<2, <<2, 2>>>>}
NextPair ==
    \/ NextClient({P_alive}, {P_alive}, {0, MaxSize}, SeedInputs, MaxReqPair)
    \/ NextAgent({"tA", "tA2"}, {ALIVE}, {"A"}, PairWriteInputs, MaxOpsPair)

\* Node A's mount writing one chunk, both nodes in the mesh, and A's shutdown
NextDrain ==
    \/ NextClient({P_alive}, {P_alive}, {0, MaxSize}, SeedInputs, MaxReqDrain)
    \/ NextAgent({"tA"}, {ALIVE}, Nodes, {<<0, <<2>>>>}, MaxOpsDrain)
    \/ Drain("A")

\* The same with a third storage node C, known by its heartbeats alone
PeerReports == {HeartbeatRequest("C", "pure", <<DRIVE>>, Some("ep"), TRUE, Some(sc)) :
                   sc \in {3, 7}}
NextDrainPeers ==
    \/ NextClient({P_alive}, {P_alive}, {0, MaxSize}, SeedInputs, MaxReqDrain)
    \/ NextAgent({"tA"}, {ALIVE}, {"B"}, {<<0, <<2>>>>}, MaxOpsDrain)
    \/ Drain("A")
    \/ \E body \in PeerReports : ClientHeartbeat(body, MaxReqPeers)

\* The mounts of nodes A and B writing one file, chunk 0 placed on A and chunk 1 on B
TwoSeeds == {<<Seed(0, "A"), Seed(1, "B")>>}
TwoWriteInputs == {<<0, <<2>>>>, <<2, <<1>>>>}
NextTwo ==
    \/ NextClient({P_alive}, {P_alive}, {MaxSize}, TwoSeeds, MaxReqTwo)
    \/ NextAgent({"tA", "tB"}, {ALIVE}, {"B"}, TwoWriteInputs, MaxOpsTwo)

\* Node A's mount writing whole chunks of two files, chunk 0 of each placed on A
FilesWriteInputs == {<<0, <<1, 1>>>>, <<0, <<2, 2>>>>}
NextFiles ==
    \/ ClientCreate(P_a, "File", MaxReqFiles)
    \/ \E path \in {P_a, P_alive} : ClientUpdateChunks(path, <<Seed(0, "A")>>, MaxReqFiles)
    \/ Mount("A")
    \/ \E name \in {ALIVE, "a"} : Lookup("tA", name)
    \/ \E name \in {ALIVE, "a"} : Read("tA", <<"/", name>>, 0, MaxSize, MaxOpsFiles)
    \/ \E name \in {ALIVE, "a"}, i \in FilesWriteInputs :
          WriteBegin("tA", <<"/", name>>, i[1], i[2], MaxOpsFiles, TRUE)
    \/ WriteChunk("tA")
    \/ WriteUpdateSize("tA")
    \/ WriteUpdateChunks("tA")

NextTrip ==
    \/ NextClient(ReqPaths, ReqPaths, {0, MaxSize}, SeedInputs, MaxReqTrip)
    \/ \E path \in TripPaths, node_type \in NodeTypes : RoundTrip(path, node_type)

NextFs == NextClient(ReqPaths \cup {P_a_slash}, ReqPaths, 0..MaxSize, ChunkInputs, MaxReqFs)

Next ==
    \/ NextClient({P_alive}, {P_alive}, {0, MaxSize}, SeedInputs, MaxReq)
    \/ NextAgent({"tA"}, {ALIVE}, {"B"}, WriteInputs, MaxOps)

NextSeq ==
    \/ NextClient({P_alive}, {P_alive}, {0, MaxSize}, SeedInputs, MaxReqSeq)
    \/ NextAgent({"tA"}, {ALIVE}, {"A"}, SeqWriteInputs, MaxOpsSeq)

\* The controller under the requests of HTTP clients alone
SpecFs == Init /\ [][NextFs]_vars

\* The controller and its clients, node A with its mount and the keepalive file, and
\* node B as a mesh peer
Spec == Init /\ [][Next]_vars

\* The same with fewer client requests and longer runs of reads and writes
SpecSeq == Init /\ [][NextSeq]_vars

\* The controller under the reports and mesh requests of HTTP clients
SpecMesh == Init /\ [][NextMesh]_vars

\* Node A's mount with two files
SpecFiles == Init /\ [][NextFiles]_vars

\* Node A's mount serving two requests at a time
SpecPair == Init /\ [][NextPair]_vars

\* Node A storing a chunk and shutting down while node B is in the mesh
SpecDrain == Init /\ [][NextDrain]_vars

\* The mounts of two nodes writing the same file
SpecTwo == Init /\ [][NextTwo]_vars

\* Node A shutting down while nodes B and C are in the mesh
SpecDrainPeers == Init /\ [][NextDrainPeers]_vars

\* The same, with node A's mesh thread coming round to its next cycle again and again
SpecRefresh == Init /\ [][NextDrain]_vars /\ WF_vars(MeshRefresh("A"))

\* A call in nat.rs: the calling thread keeps running and time keeps passing, while
\* the network owes the socket nothing
SpecNat == Init /\ [][NextNat]_vars /\ WF_vars(NatStep) /\ WF_vars(Tick)

\* The controller under client requests, one client making a round trip
SpecTrip == Init /\ [][NextTrip]_vars

\* The placement engine and the NAT classification, called on bounded inputs
SpecPure == Init /\ [][NextPure]_vars

----------------------------------------------------------------------------
\* Properties

\* C1: in every reachable state of the controller's store, every entry other than "/"
\* has a parent path that is present, has type Directory and lists the entry's
\* basename in its children.
C1_ParentIsListingDirectory ==
    \A p \in DOMAIN fs_entries \ {P_root} :
        /\ parent_of(p).ok /\ name_of(p).ok
        /\ parent_of(p).val \in DOMAIN fs_entries
        /\ fs_entries[parent_of(p).val].node_type = "Directory"
        /\ Contains(fs_entries[parent_of(p).val].children, name_of(p).val)

\* C2: in every reachable state, every File entry of the controller has
\* chunks[i].index = i at every position i of its chunks array, counted from 0.
C2_ChunkIndexesContiguous ==
    \A p \in DOMAIN fs_entries :
        fs_entries[p].node_type = "File" =>
            \A i \in 1..Len(fs_entries[p].chunks) : fs_entries[p].chunks[i].index = i - 1

\* C3: in every reachable state, every File entry of the controller with size S has
\* exactly ceil(S / CHUNK) chunk entries.
C3_ChunkCountMatchesSize ==
    \A p \in DOMAIN fs_entries :
        fs_entries[p].node_type = "File" =>
            Len(fs_entries[p].chunks) = (fs_entries[p].size + CHUNK - 1) \div CHUNK

\* C4: a lookup the controller serves between the two metadata requests of a write
\* returns the old size with the old chunks or the new size with the new chunks.
C4_LookupSeesOldOrNew ==
    (http.op = "lookup" /\ http.status = 200) =>
        \A d \in http.during :
            \/ http.entry.size = d.old.size /\ http.entry.chunks = d.old.chunks
            \/ http.entry.size = d.new_size /\ http.entry.chunks = d.new_chunks

\* A read of [0, len b) that the same mount serves right after its successful
\* write(path, 0, b) with len b <= CHUNK
ReadRightAfterWrite(t) ==
    /\ res[t].op = "read" /\ res[t].after # None
    /\ res[t].after.agent = TaskAgent(t) /\ res[t].after.path = res[t].path
    /\ res[t].after.offset = 0 /\ Len(res[t].after.data) <= CHUNK
    /\ res[t].offset = 0 /\ res[t].size = Len(res[t].after.data)

\* C5: a successful write(path, 0, b) with len b <= CHUNK followed immediately by
\* read(path, 0, len b) on the same agent returns exactly b.
C5_ReadReturnsWhatWasWritten ==
    \A t \in Tasks :
        ReadRightAfterWrite(t) => res[t].status = "ok" /\ res[t].data = res[t].after.data

\* C5 witness: such a read has been served, and it returned b
C5_Witness ==
    \E t \in Tasks :
        ReadRightAfterWrite(t) /\ res[t].status = "ok" /\ res[t].data = res[t].after.data

\* C6: a write at offset o that falls inside one existing chunk stores a chunk whose
\* bytes at [o mod CHUNK, o mod CHUNK + len data) are the data and whose other bytes
\* are the chunk's previous content.
C6_OverlayAtIntraChunkOffset ==
    \A t \in Tasks :
        (mrg[t] # None /\ mrg[t].had_old /\ mrg[t].single) =>
            mrg[t].out = [i \in 1..CHUNK |->
                            IF i > mrg[t].off /\ i <= mrg[t].off + Len(mrg[t].new)
                            THEN mrg[t].new[i - mrg[t].off]
                            ELSE IF i <= Len(mrg[t].old) THEN mrg[t].old[i] ELSE 0]

\* C7: after successful writes issued one after another by a single agent to one file
\* (no other file written, no client change of the file, no write in flight),
\* read(path, 0, size) returns the bytes of the reference flat array to which the same
\* writes were applied in order.
C7_ReadEqualsReferenceArray ==
    \A t \in Tasks :
        (/\ res[t].op = "read" /\ res[t].ref # None
         /\ res[t].ref.ok /\ res[t].ref.writers = {TaskAgent(t)}
         /\ res[t].others = {} /\ ~res[t].busy
         /\ res[t].offset = 0 /\ res[t].csize = Len(res[t].ref.bytes)
         /\ res[t].size >= res[t].csize)
        => res[t].status = "ok" /\ res[t].data = res[t].ref.bytes

\* C8: when a successful write returns, every ChunkMeta that a completed write
\* recorded and the controller still holds has a stored chunk file whose hash is the
\* ChunkMeta's chunk_hash.
C8_StoredBytesMatchHash ==
    justWrote # None =>
        \A r \in written :
            (/\ r.path \in DOMAIN fs_entries
             /\ Contains(fs_entries[r.path].chunks, r.meta))
            => /\ <<r.meta.drive_id, r.meta.index>> \in DOMAIN disk[r.agent]
               /\ Sha256(disk[r.agent][<<r.meta.drive_id, r.meta.index>>])
                    = r.meta.chunk_hash

\* C9: in every reachable state, for every ChunkMeta in the controller's metadata
\* whose node_id is a node N, N's store holds the file <drive_id>/chunk_<index>, of at
\* most CHUNK bytes.
C9_ChunkFileOnItsNode ==
    \A p \in DOMAIN fs_entries :
        \A i \in 1..Len(fs_entries[p].chunks) :
            LET m == fs_entries[p].chunks[i]
            IN m.node_id \in Nodes =>
                 /\ <<m.drive_id, m.index>> \in DOMAIN disk[m.node_id]
                 /\ Len(disk[m.node_id][<<m.drive_id, m.index>>]) <= CHUNK

\* C10: a write in which placing or storing a chunk fails returns EIO, has sent
\* neither update_size nor update_chunks, leaves the cached entry as it was, and the
\* chunk files it wrote for earlier indexes are still in place.
C10_FailedStoreReturnsEIO ==
    \A t \in Tasks :
        (res[t].op = "write" /\ res[t].cause \in {"place", "store_local", "store_remote"})
        => /\ res[t].status = "EIO"
           /\ ~res[t].sent_size /\ ~res[t].sent_chunks
           /\ res[t].cache_same /\ res[t].kept

\* C11: a write during which writing a chunk file to the local drive fails completes
\* with EIO (the handler does not abort) and sends no metadata update.
C11_LocalStoreFailureIsEIO ==
    \A t \in Tasks :
        (res[t].op = "write" /\ res[t].cause = "store_local")
        => res[t].status = "EIO" /\ ~res[t].sent_size /\ ~res[t].sent_chunks

\* C12: a write that resolves to a path for which the controller holds no entry
\* creates the entry there as a File of mode 0o644 and goes on with the write: when
\* the write ends, the controller holds that File.
C12_WriteCreatesMissingEntry ==
    \A t \in Tasks :
        (res[t].op = "write" /\ res[t].absent /\ res[t].status # "ENOENT")
        => res[t].made

\* C13: a write at offset 0 with zero-length data terminates, returns 0 bytes written
\* and changes no chunk file, nor the file's size or chunks array.
C13_EmptyWriteIsNoOp ==
    \A t \in Tasks :
        (/\ res[t].op = "write" /\ res[t].offset = 0 /\ res[t].data = <<>>
         /\ res[t].status # "ENOENT")
        => /\ res[t].status = "ok" /\ res[t].written = 0
           /\ res[t].stored = {} /\ ~res[t].sent_size /\ ~res[t].sent_chunks

\* The chunks array a write in flight holds keeps, at every position of the entry it
\* started from, that ChunkMeta's index, node_id and drive_id
FrameKept(w) ==
    /\ Len(w.new_chunks) >= Len(w.entry.chunks)
    /\ \A i \in 1..Len(w.entry.chunks) :
         /\ w.new_chunks[i].index = w.entry.chunks[i].index
         /\ w.new_chunks[i].node_id = w.entry.chunks[i].node_id
         /\ w.new_chunks[i].drive_id = w.entry.chunks[i].drive_id

\* C14: a write never changes the (node_id, drive_id) of a ChunkMeta of the entry it
\* started from, so the array it sends to update_chunks differs there in chunk_hash
\* only; and the placement engine is called only for an index that had no ChunkMeta.
C14_PlacementOfExistingChunksKept ==
    \A t \in Tasks :
        /\ wr[t].pc # "idle" => FrameKept(wr[t])
        /\ (res[t].op = "write" /\ res[t].cause = "place") => ~res[t].had_meta

\* C14 witness: a write is about to send update_chunks with a chunk rewritten in place
C14_Witness ==
    \E t \in Tasks :
        /\ wr[t].pc = "chunks" /\ FrameKept(wr[t])
        /\ \E i \in 1..Len(wr[t].entry.chunks) :
             wr[t].new_chunks[i].chunk_hash # wr[t].entry.chunks[i].chunk_hash

\* C15: on a single node A that has heartbeated, a write of one chunk of bytes at
\* offset 0 to a file that has no chunks yet succeeds through A's mount, and the
\* controller then holds the file with the size of the data and exactly one ChunkMeta,
\* whose node_id is A.
C15_SingleNodeWriteSucceeds ==
    \A t \in Tasks :
        (/\ res[t].op = "write" /\ res[t].status # "ENOENT"
         /\ res[t].offset = 0 /\ res[t].data = <<1, 1>>
         /\ res[t].beat /\ res[t].fresh)
        => /\ res[t].status = "ok" /\ res[t].written = 2
           /\ justWrote # None =>
                /\ fs_entries[res[t].path].size = 2
                /\ Len(fs_entries[res[t].path].chunks) = 1
                /\ fs_entries[res[t].path].chunks[1].node_id = TaskAgent(t)

C17_NatClassFromEndpoints ==
    (calls # None /\ calls.fn = "classify_nat")
        => LET o1 == calls.args[1]
               o2 == calls.args[2]
               nat == calls.outs[1]
           IN /\ (o1.ip = o2.ip /\ o1.port = o2.port) => nat = "FullCone"
              /\ (o1.ip = o2.ip /\ o1.port # o2.port) => nat = "PortRestrictedCone"
              /\ o1.ip # o2.ip => nat = "Symmetric"
              /\ nat # "RestrictedCone"

\* C17 witness: two observations with the same ip and different ports were classified
C17_Witness ==
    /\ calls # None /\ calls.fn = "classify_nat"
    /\ calls.args[1].ip = calls.args[2].ip /\ calls.args[1].port # calls.args[2].port
    /\ calls.outs[1] = "PortRestrictedCone"

\* Position of a node id in the order of first heartbeats
SeenPos(node_id) == CHOOSE i \in 1..Len(seen) : seen[i] = node_id

\* C18: the gateway a mesh() request returns is the node_id of a returned peer with the
\* maximum score, and among several peers with the maximum score it is the one the
\* controller saw first.
C18_GatewayIsFirstSeenMaxScore ==
    (http.op = "mesh" /\ http.peers # <<>>)
        => \E i \in 1..Len(http.peers) :
             /\ http.gateway = http.peers[i].node_id
             /\ \A j \in 1..Len(http.peers) :
                  /\ http.peers[j].score <= http.peers[i].score
                  /\ http.peers[j].score = http.peers[i].score
                       => SeenPos(http.peers[i].node_id) <= SeenPos(http.peers[j].node_id)

\* C19: after a heartbeat, whatever role the report carries, the node list holds a
\* record for the reported node_id with the reported role and drives.
C19_HeartbeatUpsertsNodeRecord ==
    http.op = "heartbeat"
        => /\ http.body.node_id \in DOMAIN nodes
           /\ nodes[http.body.node_id].role = http.body.role
           /\ nodes[http.body.node_id].drives = http.body.drives

\* C20: for a path whose parent exists, create succeeds, the lookup that follows returns
\* the created entry, the delete that follows succeeds, the lookup that follows returns
\* 404, and the parent's children no longer contain the path's basename.
C20_CreateLookupDeleteLookup ==
    (calls # None /\ calls.fn = "round_trip" /\ calls.parent_exists)
        => /\ calls.outs[1] = 200
           /\ calls.outs[2] = [status |-> 200,
                               entry |-> FsEntry(calls.args[1], calls.args[2],
                                                 ModeOf(calls.args[2]))]
           /\ calls.outs[3] = 204
           /\ calls.outs[4] = [status |-> 404, entry |-> None]
           /\ ~calls.listed

\* C20 witness: a round trip on a path under a directory another client created
C20_Witness ==
    /\ calls # None /\ calls.fn = "round_trip" /\ calls.parent_exists
    /\ calls.args[1] = P_ab
    /\ calls.outs[1] = 200 /\ calls.outs[4].status = 404 /\ ~calls.listed

\* C21: a delete of a path that has no entry returns 404, a delete of "/" returns 400,
\* and a delete that returns 404 or 400 leaves the whole store as it was: every entry
\* and every children list.
C21_FailedDeleteChangesNothing ==
    [][(http'.op = "delete" /\ nreq' = nreq + 1)
         => /\ http'.path = P_root => http'.status = 400
            /\ (http'.path # P_root /\ http'.path \notin DOMAIN fs_entries)
                 => http'.status = 404
            /\ http'.status \in {400, 404} => fs_entries' = fs_entries]_vars

\* C22: in every reachable state of the controller the entry "/" exists and is a
\* Directory, whatever create, delete, update_size and update_chunks requests were made.
C22_RootIsAlwaysADirectory ==
    P_root \in DOMAIN fs_entries /\ fs_entries[P_root].node_type = "Directory"

\* C22 witness: a client asked to delete "/" and the root is still there, with a child
C22_Witness ==
    /\ http.op = "delete" /\ http.path = P_root /\ http.status = 400
    /\ P_root \in DOMAIN fs_entries /\ fs_entries[P_root].node_type = "Directory"
    /\ fs_entries[P_root].children # <<>>

\* The chunk indexes a completed write covered, and the ChunkMeta of an index
Touched(r) == (r.offset \div CHUNK)..last_idx(r.offset, r.data)
MetaAt(chunks, i) == chunks[FindChunk(chunks, i)]

\* C23: two writes to the same file by the same agent take effect in submission order:
\* once both have completed (and no client has changed the entry meanwhile) the
\* controller's size covers both and its chunks array holds, for every index, the
\* ChunkMeta the last submitted write that covered it recorded; none recorded by the
\* first is lost.
C23_SameAgentWritesSerialized ==
    \A t1, t2 \in Tasks :
        (/\ t1 # t2 /\ TaskAgent(t1) = TaskAgent(t2)
         /\ wr[t1].pc = "idle" /\ wr[t2].pc = "idle"
         /\ res[t1].op = "write" /\ res[t1].status = "ok"
         /\ res[t2].op = "write" /\ res[t2].status = "ok"
         /\ res[t1].path = res[t2].path /\ res[t1].seq < res[t2].seq
         /\ res[t1].nreq0 = nreq /\ res[t2].nreq0 = nreq)
        => LET e == fs_entries[res[t1].path]
           IN /\ e.size = Max(res[t1].new_size, res[t2].new_size)
              /\ \A i \in Touched(res[t2]) :
                   /\ FindChunk(e.chunks, i) > 0
                   /\ MetaAt(e.chunks, i) = MetaAt(res[t2].new_chunks, i)
              /\ \A i \in Touched(res[t1]) \ Touched(res[t2]) :
                   /\ FindChunk(e.chunks, i) > 0
                   /\ MetaAt(e.chunks, i) = MetaAt(res[t1].new_chunks, i)

C25_HolePunchTerminates ==
    (nat_call.fn = "attempt_hole_punch")
      ~> (nat_call.pc = "done" /\ (nat_call.received = 0 => nat_call.result = Some(FALSE)))

\* C26: discover terminates with a network error when the STUN server never responds:
\* a probe on whose socket no datagram arrives gives up with the STUN timeout
C26_DiscoverTimesOut ==
    (nat_call.fn = "discover_public_endpoint" /\ nat_call.pc # "done")
      ~> (nat_call.received > 0 \/ (nat_call.pc = "done" /\ nat_call.result = ErrMsg("STUN timeout")))

\* The rank of the placement rule in hundredths, scaled by max_free (at least 1)
SpecRank(cluster, i) ==
    LET frees == {SumFree(cluster[j].drives) : j \in 1..Len(cluster)}
        max_free == Max(1, CHOOSE m \in frees : \A f \in frees : f <= m)
    IN 6 * cluster[i].mesh_score * max_free + 40 * SumFree(cluster[i].drives)

\* Node i of the cluster has the highest rank and is the first to have it
IsTopNode(cluster, i) ==
    /\ \A j \in 1..Len(cluster) : SpecRank(cluster, j) <= SpecRank(cluster, i)
    /\ \A j \in 1..(i - 1) : SpecRank(cluster, j) < SpecRank(cluster, i)

\* Drive k of the node has the most free bytes and is the first to have them
IsTopDrive(drives, k) ==
    /\ \A j \in 1..Len(drives) : drives[j].free_bytes <= drives[k].free_bytes
    /\ \A j \in 1..(k - 1) : drives[j].free_bytes < drives[k].free_bytes

\* The call returned a ChunkMeta on the top drive of node i
PlacedOn(out, cluster, i) ==
    /\ out.kind = "ok" /\ out.meta.node_id = cluster[i].node_id
    /\ \E k \in 1..Len(cluster[i].drives) :
          /\ IsTopDrive(cluster[i].drives, k)
          /\ out.meta.drive_id = cluster[i].drives[k].drive_id

\* C27: for every snapshot with at least one node, allocate returns the node with the
\* highest rank 0.6*mesh_score + 0.4*(free_node/max_free), the first such node in the
\* snapshot's order, and on it the drive with the most free bytes, the first such
\* drive (a top node without drives has no drive to return and the call fails)
C27_HighestRankFirstOnTies ==
    (calls # None /\ calls.fn = "allocate_chunk" /\ calls.args[3] # <<>>)
      => LET cluster == calls.args[3]
         IN \A i \in 1..Len(cluster) :
               IsTopNode(cluster, i)
                 => IF cluster[i].drives = <<>> THEN calls.outs[1].kind = "err"
                    ELSE PlacedOn(calls.outs[1], cluster, i)

\* C28: max_free is never below 1: on a snapshot in which every node has zero free
\* bytes and some node has a drive, allocate returns a ChunkMeta, and it is on a node
\* whose mesh_score no node with a drive exceeds
C28_ZeroFreeStillAllocates ==
    (/\ calls # None /\ calls.fn = "allocate_chunk"
     /\ \A i \in 1..Len(calls.args[3]) : SumFree(calls.args[3][i].drives) = 0
     /\ \E i \in 1..Len(calls.args[3]) : calls.args[3][i].drives # <<>>)
      => LET cluster == calls.args[3]
             out == calls.outs[1]
         IN /\ out.kind = "ok"
            /\ \E i \in 1..Len(cluster) :
                  /\ cluster[i].node_id = out.meta.node_id
                  /\ cluster[i].drives # <<>>
                  /\ \A j \in 1..Len(cluster) :
                        cluster[j].drives # <<>>
                          => cluster[j].mesh_score <= cluster[i].mesh_score

\* C29 as stated: Relay for every pair (us, peer) in which at least one side is
\* Symmetric
C29_RelayWhenSymmetric ==
    (/\ calls # None /\ calls.fn = "select_connectivity_mode"
     /\ "Symmetric" \in {calls.args[1], calls.args[2]})
      => calls.outs[1] = "Relay"

\* C29: Relay for every pair (us, peer) in which at least one side is Symmetric and
\* neither side is FullCone
C29_RelayWhenSymmetricNoFullCone ==
    (/\ calls # None /\ calls.fn = "select_connectivity_mode"
     /\ "Symmetric" \in {calls.args[1], calls.args[2]}
     /\ "FullCone" \notin {calls.args[1], calls.args[2]})
      => calls.outs[1] = "Relay"

C29_Witness ==
    /\ calls # None /\ calls.fn = "select_connectivity_mode"
    /\ calls.args = <<"RestrictedCone", "Symmetric">> /\ calls.outs[1] = "Relay"

\* C30 as stated: HolePunch for every pair (us, peer) in which at least one side is
\* Unknown
C30_HolePunchWhenUnknown ==
    (/\ calls # None /\ calls.fn = "select_connectivity_mode"
     /\ "Unknown" \in {calls.args[1], calls.args[2]})
      => calls.outs[1] = "HolePunch"

\* C30: HolePunch for every pair (us, peer) in which at least one side is Unknown and
\* neither side is FullCone or Symmetric
C30_HolePunchWhenUnknownOnly ==
    (/\ calls # None /\ calls.fn = "select_connectivity_mode"
     /\ "Unknown" \in {calls.args[1], calls.args[2]}
     /\ {"FullCone", "Symmetric"} \cap {calls.args[1], calls.args[2]} = {})
      => calls.outs[1] = "HolePunch"

C30_Witness ==
    /\ calls # None /\ calls.fn = "select_connectivity_mode"
    /\ calls.args = <<"Unknown", "PortRestrictedCone">> /\ calls.outs[1] = "HolePunch"

\* C31: in every reachable controller state, every peer mesh() returns belongs to a
\* node whose most recent heartbeat reported the storage role together with a mesh
\* endpoint; a node that last heartbeated as gateway-only is not listed
C31_PeersAreStorageNodes ==
    \A i \in 1..Len(mesh_info.peers) :
        LET node_id == mesh_info.peers[i].node_id
        IN /\ node_id \in DOMAIN last_beat
           /\ last_beat[node_id].role = "pure"
           /\ last_beat[node_id].mesh_endpoint # None

MeshPeerIds == {mesh_info.peers[i].node_id : i \in 1..Len(mesh_info.peers)}

\* C33: every mesh refresh whose GET /mesh succeeds replaces the agent's active peer
\* table with the peers of the response, on the second and later cycles as on the
\* first: once A's mesh thread runs and mesh() lists B, A's table comes to hold B
\* (unless A shuts down)
C33_LaterRefreshReplacesPeers ==
    (drained["A"] = None /\ transport["A"] /\ "B" \in MeshPeerIds)
      ~> ("B" \in ACTIVE_PEERS["A"] \/ drained["A"] # None)

\* The score of a peer in the snapshot the drain worked from
ScoreIn(peers, node_id) == peers[PosOf(peers, node_id)].score

\* C34: during drain, the STORE attempts for a chunk visit the live peers in descending
\* order of mesh score, the first attempt going to a peer of highest score, no attempt
\* follows a success, and the controller's ChunkMeta of the chunk still names the
\* departing agent
C34_DrainPrefersHighestScore ==
    (drained["A"] # None /\ drained["A"].stores # <<>>)
      => LET stores == drained["A"].stores
             peers == drained["A"].peers
         IN /\ \A i \in 1..Len(peers) :
                  peers[i].score <= ScoreIn(peers, stores[1].peer)
            /\ \A i, j \in 1..Len(stores) :
                  (i < j /\ stores[i].path = stores[j].path
                         /\ stores[i].index = stores[j].index)
                    => /\ stores[i].status # "ok"
                       /\ ScoreIn(peers, stores[j].peer) <= ScoreIn(peers, stores[i].peer)
            /\ \A i \in 1..Len(stores) :
                  /\ stores[i].path \in DOMAIN fs_entries
                  /\ FindChunk(fs_entries[stores[i].path].chunks, stores[i].index) > 0
                  /\ MetaAt(fs_entries[stores[i].path].chunks, stores[i].index).node_id = "A"

\* The write of task t completes with success in this step
Completes(t) == res'[t] # res[t] /\ res'[t].op = "write" /\ res'[t].status = "ok"

\* C35: when two agents write the same file concurrently, the controller's chunks
\* array is at each moment exactly the array of the update_chunks request it processed
\* last: a completing write replaces the whole array with the one it carries, nothing
\* of the array it replaced is merged in, and no other step of a write touches it
C35_LastUpdateChunksWins ==
    [][\A t \in Tasks :
          /\ Completes(t) => fs_entries'[res'[t].path].chunks = res'[t].new_chunks
          /\ (wr[t].pc # "idle" /\ wr'[t] # wr[t] /\ ~Completes(t))
               => \A path \in DOMAIN fs_entries :
                     path \in DOMAIN fs_entries'
                       /\ fs_entries'[path].chunks = fs_entries[path].chunks]_vars

C35_Witness ==
    /\ res["tA"].op = "write" /\ res["tA"].status = "ok"
    /\ res["tB"].op = "write" /\ res["tB"].status = "ok"
    /\ res["tA"].path = res["tB"].path
    /\ res["tA"].seq < res["tB"].seq
    /\ res["tA"].new_chunks # res["tB"].new_chunks
    /\ fs_entries[res["tA"].path].chunks = res["tA"].new_chunks

\* The number of times name occurs in a children list
Occurrences(children, name) == Cardinality({i \in 1..Len(children) : children[i] = name})

\* C36: create on a path that already holds an entry does not destroy data: the entry
\* keeps its size, chunks and children, and the parent's children list names it
\* exactly once
C36_CreateKeepsExistingEntry ==
    [][(/\ http'.op = "create" /\ nreq' = nreq + 1
        /\ http'.path \in DOMAIN fs_entries /\ http'.path # P_root)
         => LET path == http'.path
            IN /\ path \in DOMAIN fs_entries'
               /\ fs_entries'[path].size = fs_entries[path].size
               /\ fs_entries'[path].chunks = fs_entries[path].chunks
               /\ fs_entries'[path].children = fs_entries[path].children
               /\ parent_of(path).ok
                    => Occurrences(fs_entries'[parent_of(path).val].children,
                                   name_of(path).val) = 1]_vars


\* C37: a successful write to one file leaves what read returns for every other file
\* of the mount as it was when the write began, also when the other file has a chunk
\* with the same index on the same node and drive.
C37_WriteLeavesOtherFilesAlone ==
    [][\A t \in Tasks :
          Completes(t) =>
              \A g \in DOMAIN wr[t].reads0 :
                  read(TaskAgent(t), g, 0, MaxSize)' = wr[t].reads0[g]]_vars

\* C37 counterexample: no write completes on a mount that holds another file whose
\* chunk lies in the chunk file the write stored
C37_Counterexample ==
    ~ \E t \in Tasks :
          /\ res[t].op = "write" /\ res[t].status = "ok" /\ justWrote # None
          /\ \E g \in DOMAIN cache[TaskAgent(t)] \ {res[t].path} :
                \E i \in 1..Len(cache[TaskAgent(t)][g].chunks) :
                    LET m == cache[TaskAgent(t)][g].chunks[i]
                    IN /\ m.node_id = TaskAgent(t)
                       /\ <<m.drive_id, m.index>> \in {f[1] : f \in res[t].stored}

\* The ChunkMeta the chunk loop of task t finds for the chunk it is about to write
OldMeta(t) ==
    LET pos == FindChunk(wr[t].new_chunks, wr[t].idx)
    IN IF pos = 0 THEN None ELSE Some(wr[t].new_chunks[pos])

\* Task t is about to write a chunk that has a ChunkMeta and whose content cannot be had
OldUnreadable(t) ==
    /\ wr[t].pc = "chunk" /\ OldMeta(t) # None
    /\ LET a == TaskAgent(t)
           m == OldMeta(t).some
       IN (IF m.node_id = a THEN read_local_chunk(a, m)
           ELSE fetch_remote_chunk(a, m, wr[t].path)).kind = "err"

\* The write of task t covers only a part of that chunk
CoversPart(t) ==
    LET chunk_start == wr[t].idx * CHUNK
    IN Min(wr[t].offset + Len(wr[t].data), chunk_start + CHUNK)
         - Max(wr[t].offset, chunk_start) < CHUNK

\* C38: when the content of an existing chunk cannot be fetched during a write that
\* covers only a part of the chunk, the write ends with EIO and neither a chunk file
\* nor the controller's metadata changes (no zeros take the place of the old bytes).
C38_UnreadableOldChunkFailsWrite ==
    [][\A t \in Tasks :
          (OldUnreadable(t) /\ CoversPart(t) /\ wr'[t] # wr[t]) =>
              /\ wr'[t] = Idle /\ res'[t].op = "write" /\ res'[t].status = "EIO"
              /\ disk' = disk /\ fs_entries' = fs_entries]_vars

\* C38 counterexample: no write completes with success after it stored, for a chunk
\* whose old content it could not read, zeros around the bytes it was given
C38_Counterexample ==
    ~ \E t \in Tasks :
          /\ res[t].op = "write" /\ res[t].status = "ok" /\ justWrote # None
          /\ mrg[t] # None /\ mrg[t].path = res[t].path
          /\ ~mrg[t].had_old /\ Len(mrg[t].new) < CHUNK
          /\ mrg[t].out = OverlayNew(Zeros(CHUNK), mrg[t].off, mrg[t].new)

\* C39: connectivity mode selection is symmetric: for every pair of NAT classes, the
\* mode we select for the peer is the mode the peer selects for us.
C39_SelectionIsSymmetric ==
    (calls # None /\ calls.fn = "select_connectivity_mode" /\ Len(calls.outs) = 2)
    => calls.outs[1] = calls.outs[2]

\* C39 witness: both sides have selected, one Symmetric and the other a restricted
\* cone, and both relay
C39_Witness ==
    /\ calls # None /\ calls.fn = "select_connectivity_mode" /\ Len(calls.outs) = 2
    /\ calls.args = <<"Symmetric", "RestrictedCone">>
    /\ calls.outs = <<"Relay", "Relay">>

\* Task t's handler reads its entry of path p in this step: a read, or the start of
\* a write
UsesEntry(t, p) ==
    \/ res'[t] # res[t] /\ res'[t].op = "read" /\ res'[t].path = p
    \/ wr[t].pc = "idle" /\ wr'[t].pc = "chunk" /\ wr'[t].path = p

\* The entry it works with
EntryUsed(t, p) ==
    IF wr'[t].pc = "chunk" THEN wr'[t].entry ELSE cache[TaskAgent(t)][p]

\* C40: once another agent's write to a file has completed, a read or write on an
\* agent that has the file's entry cached works with the controller's current size
\* and chunks array, not with its cached copy.
C40_ReadSeesLatestMetadata ==
    [][\A t \in Tasks : \A p \in DOMAIN fs_entries :
          (/\ p \in DOMAIN cache[TaskAgent(t)]
           /\ \E w \in written : w.path = p /\ w.agent # TaskAgent(t)
           /\ UsesEntry(t, p))
          => /\ EntryUsed(t, p).size = fs_entries[p].size
             /\ EntryUsed(t, p).chunks = fs_entries[p].chunks]_vars

\* C40 counterexample: no read served right after another agent's write to the file
\* completed has worked with a size other than the one that write set
C40_Counterexample ==
    ~ \E t, u \in Tasks :
          /\ TaskAgent(u) # TaskAgent(t)
          /\ res[t].op = "read" /\ res[t].status = "ok" /\ res[t].after # None
          /\ res[t].after.agent = TaskAgent(u) /\ res[t].after.path = res[t].path
          /\ res[u].op = "write" /\ res[u].status = "ok" /\ res[u].path = res[t].path
          /\ res[t].csize # res[u].new_size

====
